---- MODULE Spec2Model ----
(***************************************************************************)
(* Model of the gesture-based window tiler, src/win_tiler_test_2.py:       *)
(* the region store (load_mappings / save_mappings / normalize_loaded),    *)
(* the point recorder, the gesture detectors, record_and_action and        *)
(* tile_window.                                                            *)
(***************************************************************************)
EXTENDS Integers, Sequences, FiniteSets, TLC

VARIABLES
    proc,       \* "down" | "config" (ConfigWindow open) | "listen" (after app.exec)
    file,       \* backing file mappings.json: [exists, toks] (text as a token sequence)
    mappings,   \* module global `mappings` (a Python value)
    savePc,     \* handler that saves: "idle" | "build" (onSave fills regs) | "selector" | "config"
    wbuf,       \* tokens json.dump has produced that are not yet on disk
    startFile,  \* history: the file as process start found it
    loaded,     \* history: what load_mappings gave at the latest start (None before one)
    saveArg,    \* history: argument of the latest save_mappings call (None: no call yet)
    saveFrom,   \* history: the file as the latest save_mappings call found it
    edits,      \* number of RegionSelector saves so far
    selector,   \* gesture of the RegionSelector that is open, "" for none
    handles,    \* RegionSelector.handles: the geometry <<x, y, w, h>> of each frame
    drags,      \* history: number of mouse gestures on frames so far
    regs,       \* RegionSelector.onSave: its local list regs while it is built
    jobs,       \* browser automator, Scheduler.jobs: job_id -> ScheduledJob
    counter,    \* Scheduler._counter
    now,        \* what datetime.datetime.now() returns, in seconds
    fired,      \* history: the calls of Scheduler.on_fire, each with the time of its tick
    displays,   \* the OS display layout: a sequence of displays, the primary first
    SCREEN_W,   \* module globals captured at import: GetSystemMetrics(0), (1)
    SCREEN_H,
    windows,    \* the OS top-level windows in Z-order (top first)
    foreground, \* GetForegroundWindow(): a hwnd, 0 for none
    pts,        \* Recorder.pts
    lock,       \* Recorder.lock: 0 free, else the thread holding it
    mpc,        \* listener thread inside on_move: "idle" | "append"
    mpt,        \* the point on_move is appending
    moves,      \* history: number of points appended so far
    pc,         \* per trigger thread: position inside record_and_action
    arr,        \* per trigger thread: the sample fetch returned
    clearAt,    \* history, per thread: value of moves when its clear emptied pts
    fetchAt,    \* history, per thread: value of moves when its fetch returned
    overlapped, \* history, per thread: another trigger thread was live during its session
    outcome,    \* per thread: how its latest session ended
    invoked,    \* per thread: gestures its latest session called tile_window for
    calls,      \* per thread: OS calls ShowWindow / MoveWindow of its latest session
    cands,      \* per thread: tile_window's local list `candidates` when its loop began
    tlog        \* per thread: what its latest session printed

storeVars == <<proc, file, mappings, savePc, wbuf, startFile, loaded, saveArg, saveFrom, edits>>
osVars == <<displays, SCREEN_W, SCREEN_H, windows, foreground>>
recVars == <<pts, lock, mpc, mpt, moves>>
sessVars == <<pc, arr, clearAt, fetchAt, overlapped, outcome, invoked, calls, cands, tlog>>
schedVars == <<jobs, counter, now, fired>>
edVars == <<selector, handles, drags, regs, schedVars>>
vars == <<storeVars, osVars, recVars, sessVars, edVars>>

(***************************************************************************)
(* Python / JSON values.  Every value is a tagged record.  A number is a   *)
(* rational n/d in lowest terms (d > 0); Python compares int and float by  *)
(* value, so 1 and 1.0 are the same value here.                            *)
(***************************************************************************)
Num(n, d)  == [t |-> "num", n |-> n, d |-> d]
Str(s)     == [t |-> "str", s |-> s]
Bool(b)    == [t |-> "bool", b |-> b]
None       == [t |-> "null"]
List(xs)   == [t |-> "list", items |-> xs]
Dict(f)    == [t |-> "dict", d |-> f]
Raise      == [t |-> "raise"]
EmptyDict  == Dict([k \in {} |-> None])

IsRaise(v) == v.t = "raise"

\* isinstance(x, numbers.Number): int, float and bool (bool subclasses int)
IsNumber(v) == v.t \in {"num", "bool"}

\* The strings float() parses, with their value; any other string is a ValueError.
StrFloats == [s \in {"0.5", "1"} |-> IF s = "0.5" THEN Num(1, 2) ELSE Num(1, 1)]

\* float(v)
PyFloat(v) ==
    CASE v.t = "num"  -> v
      [] v.t = "bool" -> Num(IF v.b THEN 1 ELSE 0, 1)
      [] v.t = "str"  -> IF v.s \in DOMAIN StrFloats THEN StrFloats[v.s] ELSE Raise
      [] OTHER        -> Raise

\* v.get(key, default) on a dict value
DictGet(v, key, default) == IF key \in DOMAIN v.d THEN v.d[key] ELSE default

FracKeys == <<"x_frac", "y_frac", "w_frac", "h_frac">>

\* A dict of the four fractions, or the exception one of the float() calls raised.
MkRegion(x, y, w, h) ==
    IF IsRaise(x) \/ IsRaise(y) \/ IsRaise(w) \/ IsRaise(h)
    THEN Raise
    ELSE Dict([x_frac |-> x, y_frac |-> y, w_frac |-> w, h_frac |-> h])

IsFlatFour(v) ==
    /\ v.t = "list"
    /\ Len(v.items) >= 4
    /\ \A i \in 1..4 : IsNumber(v.items[i])

\* region_from_value(v): a region dict, None, or an exception
region_from_value(v) ==
    IF v.t = "dict"
    THEN MkRegion(PyFloat(DictGet(v, "x_frac", Num(0, 1))),
                  PyFloat(DictGet(v, "y_frac", Num(0, 1))),
                  PyFloat(DictGet(v, "w_frac", Num(1, 1))),
                  PyFloat(DictGet(v, "h_frac", Num(1, 1))))
    ELSE IF IsFlatFour(v)
    THEN MkRegion(PyFloat(v.items[1]), PyFloat(v.items[2]),
                  PyFloat(v.items[3]), PyFloat(v.items[4]))
    ELSE None

\* `if r: items.append(r)`: None is falsy, a four-key dict is truthy
Truthy(r) == r.t = "dict" /\ DOMAIN r.d # {}

\* The loop `for elem in val: r = region_from_value(elem); if r: items.append(r)`;
\* an exception of region_from_value leaves the loop and propagates.
RECURSIVE CoerceEach(_, _, _)
CoerceEach(xs, i, acc) ==
    IF i > Len(xs) THEN List(acc)
    ELSE LET r == region_from_value(xs[i]) IN
         IF IsRaise(r) THEN Raise
         ELSE CoerceEach(xs, i + 1, IF Truthy(r) THEN Append(acc, r) ELSE acc)

\* One region or none, as a list
CoerceOne(v) ==
    LET r == region_from_value(v) IN
    IF IsRaise(r) THEN Raise
    ELSE IF Truthy(r) THEN List(<<r>>) ELSE List(<<>>)

\* A normalisation without the legacy forms, to compare with: the flat
\* four-number list is not recognised and a single object is dropped
NormalizeVal_NoLegacy(val) ==
    IF val.t = "list" THEN CoerceEach(val.items, 1, <<>>) ELSE List(<<>>)

\* The body of normalize_loaded's loop for one gesture value
NormalizeVal(val) ==
    IF val.t = "dict" THEN CoerceOne(val)
    ELSE IF val.t = "list"
    THEN IF IsFlatFour(val) THEN CoerceOne(val) ELSE CoerceEach(val.items, 1, <<>>)
    ELSE List(<<>>)

\* normalize_loaded(raw)
normalize_loaded(raw) ==
    IF raw.t # "dict" THEN EmptyDict
    ELSE IF \E name \in DOMAIN raw.d : IsRaise(NormalizeVal(raw.d[name]))
    THEN Raise
    ELSE Dict([name \in DOMAIN raw.d |-> NormalizeVal(raw.d[name])])

(***************************************************************************)
(* The backing file holds JSON text, modelled as its token sequence        *)
(* (separators and whitespace left out).  Dump is json.dump, json_load is  *)
(* json.load: a recursive-descent parse that raises on anything that is    *)
(* not exactly one JSON document.                                          *)
(***************************************************************************)
TokLB      == [k |-> "["]
TokRB      == [k |-> "]"]
TokLC      == [k |-> "{"]
TokRC      == [k |-> "}"]
TokKey(s)  == [k |-> "key", s |-> s]
TokAtom(v) == [k |-> "atom", v |-> v]

RECURSIVE SetToSeq(_)
SetToSeq(S) ==
    IF S = {} THEN <<>>
    ELSE LET x == CHOOSE y \in S : TRUE IN <<x>> \o SetToSeq(S \ {x})

RECURSIVE Dump(_)
RECURSIVE DumpItems(_, _)
RECURSIVE DumpMembers(_, _, _)
Dump(v) ==
    CASE v.t = "list" -> <<TokLB>> \o DumpItems(v.items, 1) \o <<TokRB>>
      [] v.t = "dict" -> <<TokLC>> \o DumpMembers(v.d, SetToSeq(DOMAIN v.d), 1) \o <<TokRC>>
      [] OTHER        -> <<TokAtom(v)>>
DumpItems(xs, i) ==
    IF i > Len(xs) THEN <<>> ELSE Dump(xs[i]) \o DumpItems(xs, i + 1)
DumpMembers(f, ks, i) ==
    IF i > Len(ks) THEN <<>>
    ELSE <<TokKey(ks[i])>> \o Dump(f[ks[i]]) \o DumpMembers(f, ks, i + 1)

ParseFail == [ok |-> FALSE, v |-> None, next |-> 0]
ParseOk(v, next) == [ok |-> TRUE, v |-> v, next |-> next]

RECURSIVE ParseValue(_, _)
RECURSIVE ParseItems(_, _, _)
RECURSIVE ParseMembers(_, _, _)
ParseValue(toks, i) ==
    IF i > Len(toks) THEN ParseFail
    ELSE CASE toks[i].k = "atom" -> ParseOk(toks[i].v, i + 1)
           [] toks[i].k = "["    -> ParseItems(toks, i + 1, <<>>)
           [] toks[i].k = "{"    -> ParseMembers(toks, i + 1, [k \in {} |-> None])
           [] OTHER              -> ParseFail
ParseItems(toks, i, acc) ==
    IF i > Len(toks) THEN ParseFail
    ELSE IF toks[i].k = "]" THEN ParseOk(List(acc), i + 1)
    ELSE LET r == ParseValue(toks, i) IN
         IF r.ok THEN ParseItems(toks, r.next, Append(acc, r.v)) ELSE ParseFail
ParseMembers(toks, i, f) ==
    IF i > Len(toks) THEN ParseFail
    ELSE IF toks[i].k = "}" THEN ParseOk(Dict(f), i + 1)
    ELSE IF toks[i].k = "key"
    THEN LET r == ParseValue(toks, i + 1) IN
         IF r.ok
         THEN ParseMembers(toks, r.next,
                  [k \in DOMAIN f \cup {toks[i].s} |->
                      IF k = toks[i].s THEN r.v ELSE f[k]])
         ELSE ParseFail
    ELSE ParseFail

\* json.load(f): the document, or JSONDecodeError
json_load(toks) ==
    LET r == ParseValue(toks, 1) IN
    IF r.ok /\ r.next = Len(toks) + 1 THEN r.v ELSE Raise

NoFile == [exists |-> FALSE, toks |-> <<>>]
FileOf(toks) == [exists |-> TRUE, toks |-> toks]

\* load_mappings(), reading the file f
load_mappings(f) ==
    IF f.exists
    THEN LET raw == json_load(f.toks) IN
         IF IsRaise(raw) THEN Raise ELSE normalize_loaded(raw)
    ELSE EmptyDict

(***************************************************************************)
(* Displays.  A display has its Win32 monitor rectangle <<left, top,       *)
(* right, bottom>> in physical pixels, its Qt logical geometry             *)
(* <<x, y, w, h>> and its device pixel ratio.                              *)
(***************************************************************************)
Display(rect, geom, dpr) == [rect |-> rect, geom |-> geom, dpr |-> dpr]

\* Two 1920x1080 displays side by side at 100 % scaling
StdDisplays ==
    << Display(<<0, 0, 1920, 1080>>, <<0, 0, 1920, 1080>>, Num(1, 1)),
       Display(<<1920, 0, 3840, 1080>>, <<1920, 0, 1920, 1080>>, Num(1, 1)) >>

Abs(a) == IF a < 0 THEN -a ELSE a
Max2(a, b) == IF a >= b THEN a ELSE b
Min2(a, b) == IF a <= b THEN a ELSE b

RECURSIVE GCD(_, _)
GCD(a, b) == IF b = 0 THEN a ELSE GCD(b, a % b)

\* The number n/d (d # 0) in lowest terms
Frac(n, d) ==
    LET g == GCD(Abs(n), Abs(d))
        sgn == IF d < 0 THEN -1 ELSE 1
    IN  Num(sgn * (n \div g), sgn * (d \div g))

\* round(n/d) for d > 0: to the nearest integer, a tie to the even one
PyRound(n, d) ==
    LET q == n \div d
        r == n % d
    IN  IF 2 * r < d THEN q
        ELSE IF 2 * r > d THEN q + 1
        ELSE IF q % 2 = 0 THEN q ELSE q + 1

InRect(x, y, rc) == rc[1] <= x /\ x < rc[3] /\ rc[2] <= y /\ y < rc[4]

\* Squared distance from a point to a rectangle (0 inside it)
Dist2(x, y, rc) ==
    LET dx == IF x < rc[1] THEN rc[1] - x ELSE IF x >= rc[3] THEN x - (rc[3] - 1) ELSE 0
        dy == IF y < rc[2] THEN rc[2] - y ELSE IF y >= rc[4] THEN y - (rc[4] - 1) ELSE 0
    IN  dx * dx + dy * dy

\* get_monitor_rect_from_point(x, y): MonitorFromPoint(..., MONITOR_DEFAULTTONEAREST)
get_monitor_rect_from_point(ds, x, y) ==
    LET i == CHOOSE j \in 1..Len(ds) :
                 \A k \in 1..Len(ds) :
                     \/ Dist2(x, y, ds[j].rect) < Dist2(x, y, ds[k].rect)
                     \/ (Dist2(x, y, ds[j].rect) = Dist2(x, y, ds[k].rect) /\ j <= k)
    IN  ds[i].rect

\* QGuiApplication.screenAt(p) or QGuiApplication.primaryScreen()
screenAt(ds, x, y) ==
    LET hit == {j \in 1..Len(ds) :
                   InRect(x, y, <<ds[j].geom[1], ds[j].geom[2],
                                  ds[j].geom[1] + ds[j].geom[3],
                                  ds[j].geom[2] + ds[j].geom[4]>>)}
    IN  IF hit = {} THEN ds[1] ELSE ds[CHOOSE j \in hit : \A k \in hit : j <= k]

\* A handle of the editor: its geometry <<x, y, w, h>> in logical pixels inside
\* the RegionSelector window, which covers the primary screen.
\* The region onSave builds for one handle.
RegionOfHandle(ds, h) ==
    LET gx     == ds[1].geom[1] + h[1]
        gy     == ds[1].geom[2] + h[2]
        screen == screenAt(ds, gx, gy)
        dpr    == screen.dpr
        phys_gx == PyRound(gx * dpr.n, dpr.d)
        phys_gy == PyRound(gy * dpr.n, dpr.d)
        phys_w  == PyRound(h[3] * dpr.n, dpr.d)
        phys_h  == PyRound(h[4] * dpr.n, dpr.d)
        mon    == get_monitor_rect_from_point(ds, phys_gx, phys_gy)
        mon_w  == mon[3] - mon[1]
        mon_h  == mon[4] - mon[2]
    IN  Dict([x_frac  |-> IF mon_w > 0 THEN Frac(phys_gx - mon[1], mon_w) ELSE Num(0, 1),
              y_frac  |-> IF mon_h > 0 THEN Frac(phys_gy - mon[2], mon_h) ELSE Num(0, 1),
              w_frac  |-> IF mon_w > 0 THEN Frac(phys_w, mon_w) ELSE Num(1, 1),
              h_frac  |-> IF mon_h > 0 THEN Frac(phys_h, mon_h) ELSE Num(1, 1),
              monitor |-> List(<<Num(mon[1], 1), Num(mon[2], 1),
                                 Num(mon[3], 1), Num(mon[4], 1)>>)])

\* mappings[g] = regs
DictSet(m, g, v) == Dict([k \in DOMAIN m.d \cup {g} |-> IF k = g THEN v ELSE m.d[k]])

\* A Save that keeps the entry of gesture g alone, to compare with
onSaveMapping_Only(m, ds, g, hs) ==
    Dict([k \in {g} |-> List([i \in 1..Len(hs) |-> RegionOfHandle(ds, hs[i])])])

\* The mapping RegionSelector.onSave leaves in memory: the entry of gesture g
\* replaced by one region per handle, in handle order
onSaveMapping(m, ds, g, hs) ==
    DictSet(m, g, List([i \in 1..Len(hs) |-> RegionOfHandle(ds, hs[i])]))

(***************************************************************************)
(* Inputs of the region store: the contents the backing file can have when *)
(* the process starts (written by an earlier run, by an older version, or  *)
(* by hand), and the handles the editor can show.                          *)
(***************************************************************************)
GestureNames == <<"L_down_right", "L_up_right", "L_down_left", "L_up_left", "V_shape">>

F0   == Num(0, 1)
F1   == Num(1, 1)
F12  == Num(1, 2)
F110 == Num(1, 10)
F15  == Num(1, 5)

Region(x, y, w, h) == Dict([x_frac |-> x, y_frac |-> y, w_frac |-> w, h_frac |-> h])
RegionMon(x, y, w, h, mon) ==
    Dict([x_frac |-> x, y_frac |-> y, w_frac |-> w, h_frac |-> h,
          monitor |-> List(<<Num(mon[1], 1), Num(mon[2], 1), Num(mon[3], 1), Num(mon[4], 1)>>)])

RLeft   == Region(F0, F0, F12, F1)
RRight  == Region(F12, F0, F12, F1)
RInner  == Region(F110, F15, F12, F12)
RLeftM  == RegionMon(F0, F0, F12, F1, <<0, 0, 1920, 1080>>)
RRightM == RegionMon(F12, F0, F12, F1, <<1920, 0, 3840, 1080>>)

\* Canonical gesture values: lists of canonical regions, with or without monitor
CanonicalVals ==
    { List(<<>>), List(<<RLeft>>), List(<<RLeft, RRight>>),
      List(<<RLeftM>>), List(<<RRightM, RLeftM>>), List(<<RInner, RLeftM>>) }

\* Legacy shapes: a bare four-number list, a single region object
FlatFour == List(<<F110, F15, F12, F12>>)
LegacyVals == { FlatFour, RInner, RLeftM }

\* Malformed entries: a string, a too-short list, a region object with a
\* non-numeric field, null
BadField == Dict([x_frac |-> Str("abc"), y_frac |-> F0, w_frac |-> F12, h_frac |-> F1])
MalformedVals ==
    { List(<<RLeft, Str("abc"), RRight>>),
      List(<<RLeft, List(<<F0, F12>>), RRight>>),
      List(<<RLeft, None, RInner>>),
      List(<<RLeft, BadField>>),
      BadField,
      Str("abc"),
      List(<<Region(Str("0.5"), F0, F12, Bool(TRUE))>>) }

ValPool == CanonicalVals \cup LegacyVals \cup MalformedVals

\* Top-level documents that are mappings
RawMappings ==
    { Dict([k \in {"L_down_right"} |-> v]) : v \in ValPool }
    \cup { Dict([k \in {"L_down_right", "V_shape"} |->
                    IF k = "V_shape" THEN v ELSE FlatFour]) : v \in ValPool }
    \cup { EmptyDict }

\* Top-level documents that are not mappings
RawOthers == { List(<<RLeft>>), Str("abc"), F1 }

InitFiles == { NoFile } \cup { FileOf(Dump(raw)) : raw \in RawMappings \cup RawOthers }

MaxHandles == 2
MaxEdits == 1
BufToks == 16

Handle(x, y, w, h) == <<x, y, w, h>>
HandlePool == { Handle(0, 0, 960, 1080), Handle(480, 270, 480, 270) }

RECURSIVE SeqsUpTo(_, _)
SeqsUpTo(S, n) ==
    IF n = 0 THEN { <<>> }
    ELSE LET shorter == SeqsUpTo(S, n - 1) IN
         shorter \cup { Append(q, x) : q \in { r \in shorter : Len(r) = n - 1 }, x \in S }

HandleLists == SeqsUpTo(HandlePool, MaxHandles)

\* The gestures whose editor is opened in the model
EditGestures == { "L_down_right" }

(***************************************************************************)
(* The recorder and the trigger threads at construction                    *)
(***************************************************************************)
MaxSessions == 2
Threads == 1..MaxSessions
Listener == MaxSessions + 1

\* Recorder.__init__
RecorderInit ==
    /\ pts = <<>>
    /\ lock = 0
    /\ mpc = "idle"
    /\ mpt = <<0, 0>>
    /\ moves = 0

SessionsInit ==
    /\ pc = [s \in Threads |-> "idle"]
    /\ arr = [s \in Threads |-> <<>>]
    /\ clearAt = [s \in Threads |-> 0]
    /\ fetchAt = [s \in Threads |-> 0]
    /\ overlapped = [s \in Threads |-> FALSE]
    /\ outcome = [s \in Threads |-> "none"]
    /\ invoked = [s \in Threads |-> <<>>]
    /\ calls = [s \in Threads |-> <<>>]
    /\ cands = [s \in Threads |-> <<>>]
    /\ tlog = [s \in Threads |-> <<>>]

\* No RegionSelector is open
EditorInit ==
    /\ selector = ""
    /\ handles = <<>>
    /\ drags = 0
    /\ regs = <<>>
    /\ jobs = [k \in {} |-> None]
    /\ counter = 0
    /\ now = 0
    /\ fired = <<>>

\* A desktop with the standard displays and no window
OsAtRest ==
    /\ displays = StdDisplays
    /\ SCREEN_W = 1920
    /\ SCREEN_H = 1080
    /\ windows = <<>>
    /\ foreground = 0

(***************************************************************************)
(* Region store actions                                                    *)
(***************************************************************************)
Take(q, n) == SubSeq(q, 1, Min2(n, Len(q)))
Drop(q, n) == SubSeq(q, Min2(n, Len(q)) + 1, Len(q))

\* __main__: mappings = load_mappings(); an exception ends the process
Start ==
    /\ proc = "down"
    /\ LET m == load_mappings(file) IN
       /\ loaded' = m
       /\ mappings' = IF IsRaise(m) THEN EmptyDict ELSE m
       /\ proc' = IF IsRaise(m) THEN "down" ELSE "config"
    /\ startFile' = file
    /\ SCREEN_W' = displays[1].rect[3] - displays[1].rect[1]
    /\ SCREEN_H' = displays[1].rect[4] - displays[1].rect[2]
    /\ UNCHANGED <<file, savePc, wbuf, saveArg, saveFrom, edits>>
    /\ UNCHANGED <<displays, windows, foreground, recVars, sessVars>>
    /\ UNCHANGED edVars

\* save_mappings(m), first part: open(MAPPINGS_FILE, 'w') creates or truncates
\* the file, json.dump writes the text into the file object's buffer
save_open(m, who) ==
    /\ file' = FileOf(<<>>)
    /\ wbuf' = Dump(m)
    /\ savePc' = who
    /\ saveArg' = m
    /\ saveFrom' = file

\* RegionSelector.onSave for gesture g with the handles shown
onSave(g, hs) ==
    /\ proc = "config"
    /\ savePc = "idle"
    /\ edits < MaxEdits
    /\ edits' = edits + 1
    /\ mappings' = onSaveMapping(mappings, displays, g, hs)
    /\ save_open(mappings', "selector")
    /\ UNCHANGED <<proc, startFile, loaded, osVars, recVars, sessVars>>
    /\ UNCHANGED edVars

\* ConfigWindow.onSave ("Save & Exit")
ConfigSave ==
    /\ proc = "config"
    /\ savePc = "idle"
    /\ save_open(mappings, "config")
    /\ UNCHANGED <<proc, mappings, startFile, loaded, edits, osVars, recVars, sessVars>>
    /\ UNCHANGED edVars

\* The file object's buffer is full: BufToks tokens go to disk
SaveFlush ==
    /\ savePc \in {"selector", "config"}
    /\ Len(wbuf) > BufToks
    /\ file' = FileOf(file.toks \o Take(wbuf, BufToks))
    /\ wbuf' = Drop(wbuf, BufToks)
    /\ UNCHANGED <<proc, mappings, savePc, startFile, loaded, saveArg, saveFrom, edits>>
    /\ UNCHANGED <<osVars, recVars, sessVars>>
    /\ UNCHANGED edVars

\* End of the with block: the rest is flushed and the file closed; the handler
\* that saved goes on (the selector closes, the configurator quits)
SaveClose ==
    /\ savePc \in {"selector", "config"}
    /\ Len(wbuf) <= BufToks
    /\ file' = FileOf(file.toks \o wbuf)
    /\ wbuf' = <<>>
    /\ proc' = IF savePc = "config" THEN "listen" ELSE proc
    /\ savePc' = "idle"
    /\ UNCHANGED <<mappings, startFile, loaded, saveArg, saveFrom, edits>>
    /\ UNCHANGED <<osVars, recVars, sessVars>>
    /\ selector' = ""
    /\ handles' = <<>>
    /\ UNCHANGED <<drags, regs, schedVars>>

\* The process is killed or the machine loses power: memory is lost, the
\* file stays as it is on disk
Crash ==
    /\ proc # "down"
    /\ proc' = "down"
    /\ savePc' = "idle"
    /\ wbuf' = <<>>
    /\ mappings' = EmptyDict
    /\ UNCHANGED <<file, startFile, loaded, saveArg, saveFrom, edits>>
    /\ UNCHANGED <<osVars, recVars, sessVars>>
    /\ selector' = ""
    /\ handles' = <<>>
    /\ regs' = <<>>
    /\ UNCHANGED <<drags, schedVars>>

InitStore ==
    /\ proc = "down"
    /\ file \in InitFiles
    /\ mappings = EmptyDict
    /\ savePc = "idle"
    /\ wbuf = <<>>
    /\ startFile = NoFile
    /\ loaded = None
    /\ saveArg = None
    /\ saveFrom = file
    /\ edits = 0
    /\ OsAtRest
    /\ RecorderInit
    /\ SessionsInit
    /\ EditorInit

NextStore ==
    \/ Start
    \/ \E g \in EditGestures, hs \in HandleLists : onSave(g, hs)
    \/ ConfigSave
    \/ SaveFlush
    \/ SaveClose
    \/ Crash

SpecStore == InitStore /\ [][NextStore]_vars

(***************************************************************************)
(* Region store: properties                                                *)
(***************************************************************************)
FourKeys == {"x_frac", "y_frac", "w_frac", "h_frac"}

\* n/d lies in [0, 1]
InUnit(v) == v.t = "num" /\ v.d > 0 /\ 0 <= v.n /\ v.n <= v.d

\* A canonical region entry: the four fractions in [0,1] with w, h > 0 and
\* optionally the monitor rectangle as four integers
CanonicalRegion(r) ==
    /\ r.t = "dict"
    /\ DOMAIN r.d \in {FourKeys, FourKeys \cup {"monitor"}}
    /\ \A k \in FourKeys : InUnit(r.d[k])
    /\ r.d["w_frac"].n > 0 /\ r.d["h_frac"].n > 0
    /\ "monitor" \in DOMAIN r.d =>
          /\ r.d["monitor"].t = "list"
          /\ Len(r.d["monitor"].items) = 4
          /\ \A i \in 1..4 : r.d["monitor"].items[i].t = "num"
                             /\ r.d["monitor"].items[i].d = 1

\* A well-formed mapping of canonical regions
Canonical(m) ==
    /\ m.t = "dict"
    /\ \A g \in DOMAIN m.d :
          /\ m.d[g].t = "list"
          /\ \A i \in 1..Len(m.d[g].items) : CanonicalRegion(m.d[g].items[i])

\* This run has loaded a mapping from startFile (it is in loaded)
JustLoaded == proc # "down"

\* C1 (as claimed): round trip.  When the file a run loads is the complete
\* output of save_mappings(m) for a canonical mapping m, the loaded mapping
\* equals m, monitor rectangles and region order included.
C1_RoundTrip ==
    ( /\ JustLoaded
      /\ saveArg # None
      /\ Canonical(saveArg)
      /\ startFile = FileOf(Dump(saveArg)) )
    => loaded = saveArg

\* The stored document of a start file that holds one
StoredDoc(f) == json_load(f.toks)

\* An entry the claim calls well formed: a region object whose fraction
\* fields are numbers, or a list starting with four numbers
WellFormedEntry(e) ==
    \/ e.t = "dict" /\ \A k \in FourKeys \cap DOMAIN e.d : IsNumber(e.d[k])
    \/ IsFlatFour(e)

\* The region a well-formed entry denotes
EntryRegion(e) ==
    IF e.t = "dict"
    THEN Region(PyFloat(DictGet(e, "x_frac", F0)), PyFloat(DictGet(e, "y_frac", F0)),
                PyFloat(DictGet(e, "w_frac", F1)), PyFloat(DictGet(e, "h_frac", F1)))
    ELSE Region(PyFloat(e.items[1]), PyFloat(e.items[2]),
                PyFloat(e.items[3]), PyFloat(e.items[4]))

RECURSIVE KeepWellFormed(_, _)
KeepWellFormed(xs, i) ==
    IF i > Len(xs) THEN <<>>
    ELSE (IF WellFormedEntry(xs[i]) THEN <<EntryRegion(xs[i])>> ELSE <<>>)
         \o KeepWellFormed(xs, i + 1)

\* What the claim says a gesture value loads to
KeptEntries(val) ==
    IF val.t = "dict" \/ IsFlatFour(val) THEN List(KeepWellFormed(<<val>>, 1))
    ELSE IF val.t = "list" THEN List(KeepWellFormed(val.items, 1))
    ELSE List(<<>>)

ClaimedLoad(f) ==
    IF ~f.exists \/ StoredDoc(f).t # "dict" THEN EmptyDict
    ELSE Dict([g \in DOMAIN StoredDoc(f).d |-> KeptEntries(StoredDoc(f).d[g])])

\* C6 (as claimed): load never fails on bad data.  For a start file that is
\* absent or holds any JSON document, load_mappings raises nothing and
\* returns the mapping with every malformed entry dropped and the
\* well-formed entries kept in order (the empty mapping for an absent file
\* or a document that is not a mapping).
C6_LoadNeverFails ==
    (~startFile.exists \/ ~IsRaise(StoredDoc(startFile)))
    => /\ ~IsRaise(loaded)
       /\ JustLoaded => loaded = ClaimedLoad(startFile)

\* C7 (as claimed): atomic save.  At every moment, a crash included, the
\* file holds the complete content the latest save_mappings call found or
\* the complete content that call writes.
C7_AtomicSave ==
    proc = "down" =>
        \/ file = saveFrom
        \/ saveArg # None /\ file = FileOf(Dump(saveArg))

\* C9: legacy coercion on load.  A gesture stored as a bare list of four
\* numbers [a, b, c, d] loads as the one-element list holding the region
\* x_frac=a, y_frac=b, w_frac=c, h_frac=d with no monitor rectangle; a
\* gesture stored as a single region object (its four fractions numbers)
\* loads as a one-element list holding a region with that object's four
\* fractions, which is the object itself when it has no other field.
IsBareFour(v) ==
    v.t = "list" /\ Len(v.items) = 4 /\ \A i \in 1..4 : v.items[i].t = "num"

IsRegionObject(v) ==
    v.t = "dict" /\ FourKeys \subseteq DOMAIN v.d /\ \A k \in FourKeys : v.d[k].t = "num"

MIN_STROKE == 80

\* A detector that takes a long enough second half in either horizontal
\* direction, to compare with
make_L_detector_Unsigned(dy_sign, dx_sign, sample) ==
    IF Len(sample) < 6 THEN FALSE
    ELSE LET m  == Len(sample) \div 2
             v1 == <<sample[m][1] - sample[1][1], sample[m][2] - sample[1][2]>>
             v2 == <<sample[Len(sample)][1] - sample[m + 1][1],
                     sample[Len(sample)][2] - sample[m + 1][2]>>
         IN  /\ Abs(v1[2]) > Abs(v1[1])
             /\ v1[2] * dy_sign > MIN_STROKE
             /\ Abs(v2[1]) > Abs(v2[2])
             /\ Abs(v2[1]) > MIN_STROKE

\* A detector whose first half ends one point later, at p[m], to compare with
make_L_detector_Mid(dy_sign, dx_sign, sample) ==
    IF Len(sample) < 6 THEN FALSE
    ELSE LET m  == Len(sample) \div 2
             v1 == <<sample[m + 1][1] - sample[1][1], sample[m + 1][2] - sample[1][2]>>
             v2 == <<sample[Len(sample)][1] - sample[m + 1][1],
                     sample[Len(sample)][2] - sample[m + 1][2]>>
         IN  /\ Abs(v1[2]) > Abs(v1[1])
             /\ v1[2] * dy_sign > MIN_STROKE
             /\ Abs(v2[1]) > Abs(v2[2])
             /\ v2[1] * dx_sign > MIN_STROKE

\* A detector that takes samples of four points and more, to compare with
make_L_detector_Short(dy_sign, dx_sign, sample) ==
    IF Len(sample) < 4 THEN FALSE
    ELSE LET m  == Len(sample) \div 2
             v1 == <<sample[m][1] - sample[1][1], sample[m][2] - sample[1][2]>>
             v2 == <<sample[Len(sample)][1] - sample[m + 1][1],
                     sample[Len(sample)][2] - sample[m + 1][2]>>
         IN  /\ Abs(v1[2]) > Abs(v1[1])
             /\ v1[2] * dy_sign > MIN_STROKE
             /\ Abs(v2[1]) > Abs(v2[2])
             /\ v2[1] * dx_sign > MIN_STROKE

\* A detector that accepts a stroke of exactly MIN_STROKE, to compare with
make_L_detector_Inclusive(dy_sign, dx_sign, sample) ==
    IF Len(sample) < 6 THEN FALSE
    ELSE LET m  == Len(sample) \div 2
             v1 == <<sample[m][1] - sample[1][1], sample[m][2] - sample[1][2]>>
             v2 == <<sample[Len(sample)][1] - sample[m + 1][1],
                     sample[Len(sample)][2] - sample[m + 1][2]>>
         IN  /\ Abs(v1[2]) > Abs(v1[1])
             /\ v1[2] * dy_sign >= MIN_STROKE
             /\ Abs(v2[1]) > Abs(v2[2])
             /\ v2[1] * dx_sign >= MIN_STROKE

\* make_L_detector(dy_sign, dx_sign)(sample)
make_L_detector(dy_sign, dx_sign, sample) ==
    IF Len(sample) < 6 THEN FALSE
    ELSE LET m  == Len(sample) \div 2
             v1 == <<sample[m][1] - sample[1][1], sample[m][2] - sample[1][2]>>
             v2 == <<sample[Len(sample)][1] - sample[m + 1][1],
                     sample[Len(sample)][2] - sample[m + 1][2]>>
         IN  /\ Abs(v1[2]) > Abs(v1[1])
             /\ v1[2] * dy_sign > MIN_STROKE
             /\ Abs(v2[1]) > Abs(v2[2])
             /\ v2[1] * dx_sign > MIN_STROKE

\* detect_V(sample)
detect_V(sample) ==
    IF Len(sample) < 8 THEN FALSE
    ELSE LET t  == Len(sample) \div 3
             v1 == <<sample[t + 1][1] - sample[1][1], sample[t + 1][2] - sample[1][2]>>
             v2 == <<sample[2 * t + 1][1] - sample[t + 1][1],
                     sample[2 * t + 1][2] - sample[t + 1][2]>>
         IN  /\ v1[2] > MIN_STROKE /\ v1[1] > MIN_STROKE
             /\ v2[2] < -MIN_STROKE /\ v2[1] > MIN_STROKE

\* GESTURES[name](sample); the dict's insertion order is GestureNames
GESTURES(name, sample) ==
    CASE name = "L_down_right" -> make_L_detector(1, 1, sample)
      [] name = "L_up_right"   -> make_L_detector(-1, 1, sample)
      [] name = "L_down_left"  -> make_L_detector(1, -1, sample)
      [] name = "L_up_left"    -> make_L_detector(-1, -1, sample)
      [] name = "V_shape"      -> detect_V(sample)

(***************************************************************************)
(* Windows.  A top-level window: its handle, what IsWindowVisible,         *)
(* GetWindowText and GetWindowLong(GWL_EXSTYLE) & WS_EX_TOOLWINDOW give,   *)
(* whether those queries raise, and the display (index) showing it.        *)
(***************************************************************************)
Window(hwnd, visible, title, tool, valid, mon) ==
    [hwnd |-> hwnd, visible |-> visible, title |-> title, tool |-> tool,
     valid |-> valid, mon |-> mon]

\* title.strip() is empty
Blank(title) == title \in {"", " "}

\* The callback _cb of enum_tilable_windows appends this window
Tilable(w) == w.valid /\ w.visible /\ ~Blank(w.title) /\ ~w.tool

\* An enumeration that ends at the first window whose queries raise, to
\* compare with
RECURSIVE enum_tilable_windows_Stop(_)
enum_tilable_windows_Stop(ws) ==
    IF ws = <<>> THEN <<>>
    ELSE IF ~Head(ws).valid THEN <<>>
    ELSE (IF Head(ws).visible /\ Head(ws).title \notin {"", " "} /\ ~Head(ws).tool
          THEN <<Head(ws).hwnd>> ELSE <<>>)
         \o enum_tilable_windows_Stop(Tail(ws))

\* enum_tilable_windows(): the handles of the tilable windows, in Z-order
RECURSIVE enum_tilable_windows(_)
enum_tilable_windows(ws) ==
    IF ws = <<>> THEN <<>>
    ELSE (IF Tilable(Head(ws)) THEN <<Head(ws).hwnd>> ELSE <<>>)
         \o enum_tilable_windows(Tail(ws))

\* get_monitor_rect_for_window(hwnd): the rectangle of the display showing it
get_monitor_rect_for_window(ds, ws, hwnd) ==
    LET i == CHOOSE j \in 1..Len(ws) : ws[j].hwnd = hwnd IN ds[ws[i].mon].rect

InSeq(x, q) == \E i \in 1..Len(q) : q[i] = x

\* candidates.remove(x): the first occurrence goes
RemoveFirst(q, x) ==
    LET i == CHOOSE j \in 1..Len(q) : q[j] = x /\ \A k \in 1..(j - 1) : q[k] # x
    IN  SubSeq(q, 1, i - 1) \o SubSeq(q, i + 1, Len(q))

\* A reordering without the remove, to compare with: the focused window is
\* inserted at the front and stays at its old position too
FocusedFirst_NoRemove(candidates, focused) ==
    IF InSeq(focused, candidates) THEN <<focused>> \o candidates ELSE candidates

\* `if focused in candidates: candidates.remove(focused); candidates.insert(0, focused)`
FocusedFirst(candidates, focused) ==
    IF InSeq(focused, candidates)
    THEN <<focused>> \o RemoveFirst(candidates, focused)
    ELSE candidates

\* float('nan'), which json.load gives for the token NaN: a number without a
\* value, written here as 0/0
NaN == Num(0, 0)
IsNaN(v) == v.t = "num" /\ v.d = 0

\* int(dim * frac): the product truncated toward zero
PyIntMul(dim, frac) ==
    IF dim * frac.n >= 0 THEN (dim * frac.n) \div frac.d
    ELSE -((-(dim * frac.n)) \div frac.d)

\* A normalisation that falls back to the whole screen when it finds no
\* region, to compare with
TileRegions_Default(cfg) ==
    LET norm == IF cfg.t = "list" /\ ~IsFlatFour(cfg)
                THEN CoerceEach(cfg.items, 1, <<>>) ELSE CoerceOne(cfg)
    IN  IF ~IsRaise(norm) /\ norm.items = <<>>
        THEN List(<<Dict([x_frac |-> Num(0, 1), y_frac |-> Num(0, 1),
                          w_frac |-> Num(1, 1), h_frac |-> Num(1, 1)])>>)
        ELSE norm

\* A normalisation that takes every list element by element, also the flat
\* list of four numbers, to compare with
TileRegions_Elementwise(cfg) ==
    IF cfg.t = "dict" THEN CoerceOne(cfg)
    ELSE IF cfg.t = "list" THEN CoerceEach(cfg.items, 1, <<>>)
    ELSE CoerceOne(cfg)

\* The normalisation at the top of tile_window: cfg -> list of region dicts
TileRegions(cfg) ==
    IF cfg.t = "dict" THEN CoerceOne(cfg)
    ELSE IF cfg.t = "list"
    THEN IF IsFlatFour(cfg) THEN CoerceOne(cfg) ELSE CoerceEach(cfg.items, 1, <<>>)
    ELSE CoerceOne(cfg)

ShowCall(hwnd, ok) == [f |-> "ShowWindow", hwnd |-> hwnd, ok |-> ok]
MoveCall(hwnd, rc, ok) == [f |-> "MoveWindow", hwnd |-> hwnd, rect |-> rc, ok |-> ok]
Msg(k, a, b) == [k |-> k, a |-> a, b |-> b]
GMsg(k, g) == [k |-> k, g |-> g]

\* The rectangle <<x, y, w, h>> the second tile_window computes for a region
TileRect2(region, sw, sh) ==
    << PyIntMul(sw, region.d["x_frac"]), PyIntMul(sh, region.d["y_frac"]),
       PyIntMul(sw, region.d["w_frac"]), PyIntMul(sh, region.d["h_frac"]) >>

\* `x = int(SCREEN_W * x_frac)` ... `h = int(SCREEN_H * h_frac)` raise
\* ValueError on a fraction that is NaN; these lines are outside the try block
RectRaises(region) == \E k \in DOMAIN region.d : IsNaN(region.d[k])

\* A pair that is moved first and restored afterwards, to compare with
TilePair2_MoveFirst(i, region, hwnd, sw, sh, fail) ==
    LET rc == <<PyIntMul(sw, region.d["x_frac"]), PyIntMul(sh, region.d["y_frac"]),
                PyIntMul(sw, region.d["w_frac"]), PyIntMul(sh, region.d["h_frac"])>> IN
    CASE fail = "move" -> [calls |-> <<[f |-> "MoveWindow", hwnd |-> hwnd, rect |-> rc, ok |-> FALSE]>>,
                           log   |-> <<[k |-> "failed", a |-> hwnd, b |-> i]>>]
      [] fail = "show" -> [calls |-> <<[f |-> "MoveWindow", hwnd |-> hwnd, rect |-> rc, ok |-> TRUE],
                                       [f |-> "ShowWindow", hwnd |-> hwnd, ok |-> FALSE]>>,
                           log   |-> <<[k |-> "failed", a |-> hwnd, b |-> i]>>]
      [] OTHER         -> [calls |-> <<[f |-> "MoveWindow", hwnd |-> hwnd, rect |-> rc, ok |-> TRUE],
                                       [f |-> "ShowWindow", hwnd |-> hwnd, ok |-> TRUE]>>,
                           log   |-> <<[k |-> "tiled", a |-> hwnd, b |-> i]>>]

\* The body of the try block for one pair: ShowWindow, then MoveWindow, then
\* the print; fail says which OS call raises for this window ("none", "show",
\* "move").  The except branch prints and the loop goes on.
TilePair2(i, region, hwnd, sw, sh, fail) ==
    LET rc == TileRect2(region, sw, sh) IN
    CASE fail = "show" -> [calls |-> <<ShowCall(hwnd, FALSE)>>,
                           log   |-> <<Msg("failed", hwnd, i)>>]
      [] fail = "move" -> [calls |-> <<ShowCall(hwnd, TRUE), MoveCall(hwnd, rc, FALSE)>>,
                           log   |-> <<Msg("failed", hwnd, i)>>]
      [] OTHER         -> [calls |-> <<ShowCall(hwnd, TRUE), MoveCall(hwnd, rc, TRUE)>>,
                           log   |-> <<Msg("tiled", hwnd, i)>>]

\* A loop without the try/except, to compare with: the first OS call that
\* raises ends the loop
RECURSIVE TileLoop2_Abort(_, _, _, _, _, _, _)
TileLoop2_Abort(i, n, regions, candidates, sw, sh, fails) ==
    IF i > n THEN [calls |-> <<>>, log |-> <<>>, raised |-> FALSE]
    ELSE IF RectRaises(regions[i]) THEN [calls |-> <<>>, log |-> <<>>, raised |-> TRUE]
    ELSE LET one  == TilePair2(i, regions[i], candidates[i], sw, sh, fails[candidates[i]])
         IN  IF fails[candidates[i]] # "none"
             THEN [calls |-> one.calls, log |-> one.log, raised |-> FALSE]
             ELSE LET rest == TileLoop2_Abort(i + 1, n, regions, candidates, sw, sh, fails)
                  IN  [calls |-> one.calls \o rest.calls, log |-> one.log \o rest.log,
                       raised |-> rest.raised]

\* A loop that does not index the candidates, to compare with: every region
\* goes to the first candidate
RECURSIVE TileLoop2_Reuse(_, _, _, _, _, _, _)
TileLoop2_Reuse(i, n, regions, candidates, sw, sh, fails) ==
    IF i > n THEN [calls |-> <<>>, log |-> <<>>, raised |-> FALSE]
    ELSE IF RectRaises(regions[i]) THEN [calls |-> <<>>, log |-> <<>>, raised |-> TRUE]
    ELSE LET one  == TilePair2(i, regions[i], candidates[1], sw, sh, fails[candidates[1]])
             rest == TileLoop2_Reuse(i + 1, n, regions, candidates, sw, sh, fails)
         IN  [calls |-> one.calls \o rest.calls, log |-> one.log \o rest.log,
              raised |-> rest.raised]

\* `for i in range(n_to_tile)` of the second tile_window, from pair i on;
\* raised: an exception left the loop (and so leaves tile_window)
RECURSIVE TileLoop2(_, _, _, _, _, _, _)
TileLoop2(i, n, regions, candidates, sw, sh, fails) ==
    IF i > n THEN [calls |-> <<>>, log |-> <<>>, raised |-> FALSE]
    ELSE IF RectRaises(regions[i]) THEN [calls |-> <<>>, log |-> <<>>, raised |-> TRUE]
    ELSE LET one  == TilePair2(i, regions[i], candidates[i], sw, sh, fails[candidates[i]])
             rest == TileLoop2(i + 1, n, regions, candidates, sw, sh, fails)
         IN  [calls |-> one.calls \o rest.calls, log |-> one.log \o rest.log,
              raised |-> rest.raised]

TileResult(status, cs, lg, cd) == [status |-> status, calls |-> cs, log |-> lg, cands |-> cd]

\* The second definition of tile_window (the one the name is bound to when
\* record_and_action runs).  ws, fg: the OS windows and foreground window;
\* sw, sh: SCREEN_W, SCREEN_H; fails: which OS call raises, per window.
tile_window_2(cfg, ws, fg, sw, sh, fails) ==
    LET norm == TileRegions(cfg) IN
    IF IsRaise(norm) THEN TileResult("raised", <<>>, <<>>, <<>>)
    ELSE IF norm.items = <<>>
    THEN TileResult("returned", <<>>, <<Msg("invalid_mapping", 0, 0)>>, <<>>)
    ELSE IF enum_tilable_windows(ws) = <<>>
    THEN TileResult("returned", <<>>, <<Msg("no_candidates", 0, 0)>>, <<>>)
    ELSE LET regions    == norm.items
             candidates == FocusedFirst(enum_tilable_windows(ws), fg)
             n_to_tile  == Min2(Len(regions), Len(candidates))
             loop       == TileLoop2(1, n_to_tile, regions, candidates, sw, sh, fails)
         IN  IF loop.raised THEN TileResult("raised", loop.calls, loop.log, candidates)
             ELSE
             TileResult("returned", loop.calls,
                 loop.log
                 \o (IF Len(regions) > n_to_tile
                     THEN <<Msg("regions_unused", Len(regions) - n_to_tile, 0)>> ELSE <<>>)
                 \o (IF Len(candidates) > n_to_tile
                     THEN <<Msg("windows_untiled", Len(candidates) - n_to_tile, 0)>>
                     ELSE <<>>),
                 candidates)

\* The rectangle <<x, y, w, h>> the first tile_window computes for a region on
\* the monitor rectangle mon of the window
TileRect1(region, mon) ==
    << mon[1] + PyIntMul(mon[3] - mon[1], region.d["x_frac"]),
       mon[2] + PyIntMul(mon[4] - mon[2], region.d["y_frac"]),
       Max2(1, PyIntMul(mon[3] - mon[1], region.d["w_frac"])),
       Max2(1, PyIntMul(mon[4] - mon[2], region.d["h_frac"])) >>

\* `for i in range(n_to_tile)` of the first tile_window, from pair i on
RECURSIVE TileLoop1(_, _, _, _, _, _, _)
TileLoop1(i, n, regions, candidates, ds, ws, fails) ==
    IF i > n THEN [calls |-> <<>>, log |-> <<>>, raised |-> FALSE]
    ELSE LET hwnd == candidates[i]
             mon  == get_monitor_rect_for_window(ds, ws, hwnd)
             rc   == TileRect1(regions[i], mon)
             bad  == mon[3] - mon[1] > 0 /\ mon[4] - mon[2] > 0 /\ RectRaises(regions[i])
             one  ==
                 IF mon[3] - mon[1] <= 0 \/ mon[4] - mon[2] <= 0
                 THEN [calls |-> <<>>, log |-> <<Msg("invalid_monitor", hwnd, i)>>]
                 ELSE CASE fails[hwnd] = "show" ->
                             [calls |-> <<ShowCall(hwnd, FALSE)>>,
                              log   |-> <<Msg("failed", hwnd, i)>>]
                        [] fails[hwnd] = "move" ->
                             [calls |-> <<ShowCall(hwnd, TRUE), MoveCall(hwnd, rc, FALSE)>>,
                              log   |-> <<Msg("failed", hwnd, i)>>]
                        [] OTHER ->
                             [calls |-> <<ShowCall(hwnd, TRUE), MoveCall(hwnd, rc, TRUE)>>,
                              log   |-> <<Msg("tiled", hwnd, i)>>]
             rest == TileLoop1(i + 1, n, regions, candidates, ds, ws, fails)
         IN  IF bad THEN [calls |-> <<>>, log |-> <<>>, raised |-> TRUE]
             ELSE [calls |-> one.calls \o rest.calls, log |-> one.log \o rest.log,
                   raised |-> rest.raised]

\* The first definition of tile_window, which the second one replaces when
\* the module is loaded
tile_window_1(cfg, ds, ws, fg, fails) ==
    LET norm == TileRegions(cfg) IN
    IF IsRaise(norm) THEN TileResult("raised", <<>>, <<>>, <<>>)
    ELSE IF norm.items = <<>>
    THEN TileResult("returned", <<>>, <<Msg("invalid_mapping", 0, 0)>>, <<>>)
    ELSE IF enum_tilable_windows(ws) = <<>>
    THEN TileResult("returned", <<>>, <<Msg("no_candidates", 0, 0)>>, <<>>)
    ELSE LET regions    == norm.items
             candidates == FocusedFirst(enum_tilable_windows(ws), fg)
             n_to_tile  == Min2(Len(regions), Len(candidates))
             loop       == TileLoop1(1, n_to_tile, regions, candidates, ds, ws, fails)
         IN  IF loop.raised THEN TileResult("raised", loop.calls, loop.log, candidates)
             ELSE
             TileResult("returned", loop.calls,
                 loop.log
                 \o (IF Len(regions) > n_to_tile
                     THEN <<Msg("regions_unused", Len(regions) - n_to_tile, 0)>> ELSE <<>>),
                 candidates)

\* tile_window as record_and_action finds it: a module-level name is bound to
\* its latest definition
tile_window(cfg, ds, ws, fg, sw, sh, fails) == tile_window_2(cfg, ws, fg, sw, sh, fails)

\* A loop without the break, to compare with: it acts on the last gesture
\* that matches
RECURSIVE GestureLoop_Last(_, _)
GestureLoop_Last(i, sample) ==
    IF i > Len(GestureNames) THEN <<>>
    ELSE LET later == GestureLoop_Last(i + 1, sample) IN
         IF later # <<>> THEN later
         ELSE IF GESTURES(GestureNames[i], sample) THEN <<GestureNames[i]>> ELSE <<>>

\* The loop of record_and_action over GESTURES from position i on: the
\* gestures it acts on (`break` leaves the loop at the first match)
RECURSIVE GestureLoop(_, _)
GestureLoop(i, sample) ==
    IF i > Len(GestureNames) THEN <<>>
    ELSE IF GESTURES(GestureNames[i], sample) THEN <<GestureNames[i]>>
    ELSE GestureLoop(i + 1, sample)

(***************************************************************************)
(* What the OS does with the calls                                         *)
(***************************************************************************)
\* Area a rectangle <<x, y, w, h>> shares with a monitor rectangle
Overlap(rc, mon) ==
    Max2(0, Min2(rc[1] + rc[3], mon[3]) - Max2(rc[1], mon[1]))
    * Max2(0, Min2(rc[2] + rc[4], mon[4]) - Max2(rc[2], mon[2]))

\* Index of the display showing a window placed at rc: the largest overlap,
\* the nearest display when there is none
DisplayOfRect(ds, rc) ==
    IF \E j \in 1..Len(ds) : Overlap(rc, ds[j].rect) > 0
    THEN CHOOSE j \in 1..Len(ds) :
             \A k \in 1..Len(ds) :
                 \/ Overlap(rc, ds[j].rect) > Overlap(rc, ds[k].rect)
                 \/ (Overlap(rc, ds[j].rect) = Overlap(rc, ds[k].rect) /\ j <= k)
    ELSE CHOOSE j \in 1..Len(ds) :
             ds[j].rect = get_monitor_rect_from_point(ds, rc[1], rc[2])

\* The windows after the calls cs: a MoveWindow that succeeded puts its window
\* on the display of its new rectangle
MovedTo(cs, hwnd) ==
    LET hit == {i \in 1..Len(cs) : cs[i].f = "MoveWindow" /\ cs[i].hwnd = hwnd /\ cs[i].ok}
    IN  IF hit = {} THEN <<>> ELSE <<cs[CHOOSE i \in hit : \A j \in hit : j <= i].rect>>

AfterCalls(ds, ws, cs) ==
    [i \in 1..Len(ws) |->
        IF MovedTo(cs, ws[i].hwnd) = <<>> THEN ws[i]
        ELSE [ws[i] EXCEPT !.mon = DisplayOfRect(ds, MovedTo(cs, ws[i].hwnd)[1])]]

Hwnds(ws) == {ws[i].hwnd : i \in 1..Len(ws)}

\* The windows tile_window can make an OS call on, each with the call that
\* raises for it (if any)
Tilables(ws) == {ws[i].hwnd : i \in {j \in 1..Len(ws) : Tilable(ws[j])}}
FailModes == {"none", "show", "move"}

(***************************************************************************)
(* The listener thread (on_move) and the trigger threads                   *)
(* (on_hotkey -> record_and_action)                                        *)
(***************************************************************************)
Live(s) == pc[s] # "idle"

\* A hotkey handler that ignores a press while a session is in progress, to
\* compare with
on_hotkey_Guarded(maxLive) ==
    /\ proc \in {"config", "listen"}
    /\ \A t \in Threads : ~Live(t)
    /\ \E s \in Threads :
          /\ \A t \in Threads : t < s => Live(t)
          /\ pc' = [pc EXCEPT ![s] = "clear"]
          /\ arr' = [arr EXCEPT ![s] = <<>>]
          /\ clearAt' = [clearAt EXCEPT ![s] = moves]
          /\ fetchAt' = [fetchAt EXCEPT ![s] = moves]
          /\ overlapped' = [overlapped EXCEPT ![s] = FALSE]
          /\ outcome' = [outcome EXCEPT ![s] = "none"]
          /\ invoked' = [invoked EXCEPT ![s] = <<>>]
          /\ calls' = [calls EXCEPT ![s] = <<>>]
          /\ cands' = [cands EXCEPT ![s] = <<>>]
          /\ tlog' = [tlog EXCEPT ![s] = <<>>]
    /\ UNCHANGED <<storeVars, osVars, recVars>>
    /\ UNCHANGED edVars

\* on_hotkey: a new thread runs record_and_action.  maxLive bounds the
\* sessions in progress.
on_hotkey(maxLive) ==
    /\ proc \in {"config", "listen"}
    /\ Cardinality({t \in Threads : Live(t)}) < maxLive
    /\ \E s \in Threads :
          /\ ~Live(s)
          /\ \A t \in Threads : t < s => Live(t)
          /\ pc' = [pc EXCEPT ![s] = "clear"]
          /\ arr' = [arr EXCEPT ![s] = <<>>]
          /\ clearAt' = [clearAt EXCEPT ![s] = moves]
          /\ fetchAt' = [fetchAt EXCEPT ![s] = moves]
          /\ overlapped' = [t \in Threads |->
                               IF t = s THEN \E u \in Threads : Live(u)
                               ELSE IF Live(t) THEN TRUE ELSE overlapped[t]]
          /\ outcome' = [outcome EXCEPT ![s] = "none"]
          /\ invoked' = [invoked EXCEPT ![s] = <<>>]
          /\ calls' = [calls EXCEPT ![s] = <<>>]
          /\ cands' = [cands EXCEPT ![s] = <<>>]
          /\ tlog' = [tlog EXCEPT ![s] = <<>>]
    /\ UNCHANGED <<storeVars, osVars, recVars>>
    /\ UNCHANGED edVars

\* Recorder.clear: `with self.lock:` acquires
clear_acquire(s) ==
    /\ pc[s] = "clear"
    /\ lock = 0
    /\ lock' = s
    /\ pc' = [pc EXCEPT ![s] = "clearing"]
    /\ UNCHANGED <<storeVars, osVars, pts, mpc, mpt, moves>>
    /\ UNCHANGED <<arr, clearAt, fetchAt, overlapped, outcome, invoked, calls, cands, tlog>>
    /\ UNCHANGED edVars

\* A clear that leaves its `with` block without releasing the lock, to
\* compare with
clear_do_KeepLock(s) ==
    /\ pc[s] = "clearing"
    /\ pts' = <<>>
    /\ lock' = lock
    /\ clearAt' = [clearAt EXCEPT ![s] = moves]
    /\ pc' = [pc EXCEPT ![s] = "sleep"]
    /\ UNCHANGED <<storeVars, osVars, mpc, mpt, moves>>
    /\ UNCHANGED <<arr, fetchAt, overlapped, outcome, invoked, calls, cands, tlog>>
    /\ UNCHANGED edVars

\* Recorder.clear: self.pts.clear(), the lock is released; time.sleep begins
clear_do(s) ==
    /\ pc[s] = "clearing"
    /\ pts' = <<>>
    /\ lock' = IF lock = s THEN 0 ELSE lock
    /\ clearAt' = [clearAt EXCEPT ![s] = moves]
    /\ pc' = [pc EXCEPT ![s] = "sleep"]
    /\ UNCHANGED <<storeVars, osVars, mpc, mpt, moves>>
    /\ UNCHANGED <<arr, fetchAt, overlapped, outcome, invoked, calls, cands, tlog>>
    /\ UNCHANGED edVars

\* time.sleep(GESTURE_TIMEOUT) returns
wake(s) ==
    /\ pc[s] = "sleep"
    /\ pc' = [pc EXCEPT ![s] = "fetch"]
    /\ UNCHANGED <<storeVars, osVars, recVars>>
    /\ UNCHANGED <<arr, clearAt, fetchAt, overlapped, outcome, invoked, calls, cands, tlog>>
    /\ UNCHANGED edVars

\* Recorder.fetch: `with self.lock:` acquires
fetch_acquire(s) ==
    /\ pc[s] = "fetch"
    /\ lock = 0
    /\ lock' = s
    /\ pc' = [pc EXCEPT ![s] = "copy"]
    /\ UNCHANGED <<storeVars, osVars, pts, mpc, mpt, moves>>
    /\ UNCHANGED <<arr, clearAt, fetchAt, overlapped, outcome, invoked, calls, cands, tlog>>
    /\ UNCHANGED edVars

\* Recorder.fetch: arr = np.array(self.pts)
fetch_copy(s) ==
    /\ pc[s] = "copy"
    /\ arr' = [arr EXCEPT ![s] = pts]
    /\ pc' = [pc EXCEPT ![s] = "drain"]
    /\ UNCHANGED <<storeVars, osVars, recVars>>
    /\ UNCHANGED <<clearAt, fetchAt, overlapped, outcome, invoked, calls, cands, tlog>>
    /\ UNCHANGED edVars

\* Recorder.fetch: self.pts.clear(), the lock is released, arr is returned
fetch_clear(s) ==
    /\ pc[s] = "drain"
    /\ pts' = <<>>
    /\ lock' = IF lock = s THEN 0 ELSE lock
    /\ fetchAt' = [fetchAt EXCEPT ![s] = moves]
    /\ pc' = [pc EXCEPT ![s] = "classify"]
    /\ UNCHANGED <<storeVars, osVars, mpc, mpt, moves>>
    /\ UNCHANGED <<arr, clearAt, overlapped, outcome, invoked, calls, cands, tlog>>
    /\ UNCHANGED edVars

\* A process in which an exception leaving record_and_action is not held by
\* the thread it runs in, to compare with
ThreadEnd_Fatal(status) == IF status = "raised" THEN "down" ELSE proc

\* The process when the thread running record_and_action ends with the given
\* status: threading.Thread reports an exception that leaves its target and
\* the thread ends; the other threads go on
ThreadEnd(status) == proc

\* The rest of record_and_action: the loop over GESTURES, the mapping lookup
\* and tile_window; the thread ends
classify(s) ==
    /\ pc[s] = "classify"
    /\ pc' = [pc EXCEPT ![s] = "idle"]
    /\ \E acted \in { GestureLoop(1, arr[s]) } :
       IF acted = <<>>
       THEN /\ outcome' = [outcome EXCEPT ![s] = "no_match"]
            /\ tlog' = [tlog EXCEPT ![s] = <<Msg("no_match", 0, 0)>>]
            /\ UNCHANGED <<invoked, calls, cands, windows>>
       ELSE IF acted[1] \notin DOMAIN mappings.d
       THEN /\ outcome' = [outcome EXCEPT ![s] = "no_mapping"]
            /\ tlog' = [tlog EXCEPT ![s] = <<GMsg("detected", acted[1]),
                                             GMsg("no_mapping", acted[1])>>]
            /\ UNCHANGED <<invoked, calls, cands, windows>>
       ELSE \E fails \in [Tilables(windows) -> FailModes] :
               \E res \in { tile_window(mappings.d[acted[1]], displays, windows, foreground,
                                         SCREEN_W, SCREEN_H, fails) } :
                   /\ outcome' = [outcome EXCEPT ![s] = res.status]
                   /\ invoked' = [invoked EXCEPT ![s] = acted]
                   /\ calls' = [calls EXCEPT ![s] = res.calls]
                   /\ cands' = [cands EXCEPT ![s] = res.cands]
                   /\ tlog' = [tlog EXCEPT ![s] = <<GMsg("detected", acted[1])>> \o res.log]
                   /\ windows' = AfterCalls(displays, windows, res.calls)
    /\ proc' = ThreadEnd(outcome'[s])
    /\ UNCHANGED <<file, mappings, savePc, wbuf, startFile, loaded, saveArg, saveFrom, edits>>
    /\ UNCHANGED <<recVars, displays, SCREEN_W, SCREEN_H, foreground>>
    /\ UNCHANGED <<arr, clearAt, fetchAt, overlapped>>
    /\ UNCHANGED edVars

\* An on_move that does not take the lock before it appends, to compare with
on_move_acquire_NoLock(p, maxMoves) ==
    /\ mpc = "idle"
    /\ moves < maxMoves
    /\ lock' = lock
    /\ mpc' = "append"
    /\ mpt' = p
    /\ UNCHANGED <<storeVars, osVars, sessVars, pts, moves>>
    /\ UNCHANGED edVars

\* Recorder.on_move(x, y): `with self.lock:` acquires
on_move_acquire(p, maxMoves) ==
    /\ mpc = "idle"
    /\ moves < maxMoves
    /\ lock = 0
    /\ lock' = Listener
    /\ mpc' = "append"
    /\ mpt' = p
    /\ UNCHANGED <<storeVars, osVars, sessVars, pts, moves>>
    /\ UNCHANGED edVars

\* An on_move whose list is the very object a session classifies (fetch
\* handing out the list instead of a copy), to compare with
on_move_append_Alias ==
    /\ mpc = "append"
    /\ pts' = Append(pts, mpt)
    /\ moves' = moves + 1
    /\ lock' = IF lock = Listener THEN 0 ELSE lock
    /\ mpc' = "idle"
    /\ arr' = [s \in Threads |-> IF pc[s] = "classify" THEN Append(arr[s], mpt) ELSE arr[s]]
    /\ UNCHANGED <<storeVars, osVars, mpt>>
    /\ UNCHANGED <<pc, clearAt, fetchAt, overlapped, outcome, invoked, calls, cands, tlog>>
    /\ UNCHANGED edVars

\* Recorder.on_move: self.pts.append((x, y)), the lock is released
on_move_append ==
    /\ mpc = "append"
    /\ pts' = Append(pts, mpt)
    /\ moves' = moves + 1
    /\ lock' = IF lock = Listener THEN 0 ELSE lock
    /\ mpc' = "idle"
    /\ UNCHANGED <<storeVars, osVars, sessVars, mpt>>
    /\ UNCHANGED edVars

\* While one session sleeps and nothing else runs, the listener thread
\* appends the points of a whole mouse movement (one of samples), and the
\* sleep ends
record(s, samples) ==
    /\ pc[s] = "sleep"
    /\ lock = 0
    /\ mpc = "idle"
    /\ \E sample \in samples : pts' = pts \o sample
    /\ pc' = [pc EXCEPT ![s] = "fetch"]
    /\ UNCHANGED <<storeVars, osVars, lock, mpc, mpt, moves>>
    /\ UNCHANGED <<arr, clearAt, fetchAt, overlapped, outcome, invoked, calls, cands, tlog>>
    /\ UNCHANGED edVars

(***************************************************************************)
(* Tiling: the listening process with windows on the desktop, a mapping    *)
(* loaded, and one recording session at a time                             *)
(***************************************************************************)
MaxWins == 3
MaxRegions == 3

PtA == <<0, 0>>
PtB == <<90, 100>>
PtC == <<190, 0>>

\* A mouse movement each: down then right, down-right then up-right, none
StrokeLDownRight == <<PtA, PtA, PtB, PtA, PtA, PtC>>
StrokeV == <<PtA, PtA, PtB, PtB, PtC, PtC, PtC, PtC>>
TileSamples == { StrokeLDownRight, StrokeV, <<>> }

\* Kinds of window: <<visible, title, tool window, queries succeed, display>>
WinKinds ==
    { <<TRUE, "App", FALSE, TRUE, 1>>,
      <<TRUE, "App", FALSE, TRUE, 2>>,
      <<FALSE, "App", FALSE, TRUE, 1>>,
      <<TRUE, "Palette", TRUE, TRUE, 2>> }

\* Windows of the given kinds, top first, with handles 101, 102, ...
MkWindows(kinds) ==
    [i \in 1..Len(kinds) |->
        Window(100 + i, kinds[i][1], kinds[i][2], kinds[i][3], kinds[i][4], kinds[i][5])]

WindowLists == { MkWindows(ks) : ks \in SeqsUpTo(WinKinds, MaxWins) }

RegionCycle == <<RLeft, RRight, RInner>>
FirstRegions(n) == [i \in 1..n |-> RegionCycle[((i - 1) % Len(RegionCycle)) + 1]]

\* The mappings a start can have loaded: no entry, or 0..MaxRegions regions
\* for L_down_right (stored with or without monitor rectangles)
TileFiles ==
    { FileOf(Dump(EmptyDict)) }
    \cup { FileOf(Dump(Dict([k \in {"L_down_right"} |-> List(FirstRegions(n))]))) :
              n \in 0..MaxRegions }
    \cup { FileOf(Dump(Dict([k \in {"L_down_right"} |-> List(<<RRightM, RLeftM>>)]))) }

InitTile ==
    /\ proc = "listen"
    /\ file \in TileFiles
    /\ mappings = load_mappings(file)
    /\ savePc = "idle"
    /\ wbuf = <<>>
    /\ startFile = file
    /\ loaded = mappings
    /\ saveArg = None
    /\ saveFrom = file
    /\ edits = 0
    /\ displays = StdDisplays
    /\ SCREEN_W = displays[1].rect[3] - displays[1].rect[1]
    /\ SCREEN_H = displays[1].rect[4] - displays[1].rect[2]
    /\ windows \in WindowLists
    /\ foreground \in {0} \cup Hwnds(windows)
    /\ RecorderInit
    /\ SessionsInit
    /\ EditorInit

NextTile ==
    \/ on_hotkey(1)
    \/ \E s \in Threads :
          \/ clear_acquire(s)
          \/ clear_do(s)
          \/ record(s, TileSamples)
          \/ fetch_acquire(s)
          \/ fetch_copy(s)
          \/ fetch_clear(s)
          \/ classify(s)

SpecTile == InitTile /\ [][NextTile]_vars

(***************************************************************************)
(* Properties of the tiling engine                                         *)
(***************************************************************************)
\* Thread s takes the step that classifies its sample and tiles
ClassifyStep(s) == pc[s] = "classify" /\ pc'[s] = "idle"

\* ... and in that step tile_window got a mapping value that normalises to
\* at least one region, with at least one eligible window on the desktop
TilingStep(s) ==
    /\ ClassifyStep(s)
    /\ invoked'[s] # <<>>
    /\ ~IsRaise(TileRegions(mappings.d[invoked'[s][1]]))
    /\ TileRegions(mappings.d[invoked'[s][1]]).items # <<>>
    /\ enum_tilable_windows(windows) # <<>>

\* The normalised regions of the gesture thread s acted on
RegionsOf(s) == TileRegions(mappings.d[invoked'[s][1]]).items

\* The positions of the calls of kind f on window hwnd in a call sequence
CallsOn(cs, f, hwnd) == {k \in 1..Len(cs) : cs[k].f = f /\ cs[k].hwnd = hwnd}

\* The claimed candidate order: the focused window first when it is
\* eligible, then the others in enumeration order
ClaimedOrder(E, focused) ==
    IF InSeq(focused, E)
    THEN <<focused>> \o SelectSeq(E, LAMBDA h : h # focused)
    ELSE E

\* The claimed rectangle <<x, y, w, h>> of a region on the monitor rectangle
\* <<L, T, R, B>>
ClaimedRect(region, mon) ==
    << mon[1] + PyIntMul(mon[3] - mon[1], region.d["x_frac"]),
       mon[2] + PyIntMul(mon[4] - mon[2], region.d["y_frac"]),
       PyIntMul(mon[3] - mon[1], region.d["w_frac"]),
       PyIntMul(mon[4] - mon[2], region.d["h_frac"]) >>

\* C2 (cross-monitor replay): every MoveWindow of a tiling step places its
\* window at the paired region's fractions of the monitor that displays that
\* window when the step is taken, (L + x*(R-L), T + y*(B-T), w*(R-L),
\* h*(B-T)), whatever monitor the region was drawn on.
C2_CrossMonitor ==
    [][\A s \in Threads : TilingStep(s) =>
          \A k \in 1..Len(calls'[s]) :
              calls'[s][k].f = "MoveWindow" =>
                  \E i \in 1..Min2(Len(RegionsOf(s)), Len(cands'[s])) :
                      /\ cands'[s][i] = calls'[s][k].hwnd
                      /\ calls'[s][k].rect =
                            ClaimedRect(RegionsOf(s)[i],
                                get_monitor_rect_for_window(displays, windows,
                                                            calls'[s][k].hwnd))]_vars

\* C3 (partial failure isolation): in a tiling step over N pairs the call
\* returns normally and every pair is attempted exactly once, whichever OS
\* calls fail for other windows: each paired window gets one ShowWindow and,
\* unless that fails, one MoveWindow with the rectangle of its own region;
\* no other OS call is made, so no window that was moved is moved back.
C3_PartialFailure ==
    [][\A s \in Threads : TilingStep(s) =>
          LET cs == calls'[s]
              R  == RegionsOf(s)
              n  == Min2(Len(R), Len(cands'[s]))
          IN  /\ outcome'[s] = "returned"
              /\ \A k \in 1..Len(cs) : \E i \in 1..n : cs[k].hwnd = cands'[s][i]
              /\ \A i \in 1..n :
                    LET hwnd  == cands'[s][i]
                        shows == CallsOn(cs, "ShowWindow", hwnd)
                        mvs   == CallsOn(cs, "MoveWindow", hwnd)
                        rc    == TileRect2(R[i], SCREEN_W, SCREEN_H)
                    IN  /\ Cardinality(shows) = 1
                        /\ \A k \in shows :
                              IF cs[k].ok
                              THEN mvs = {k + 1} /\ cs[k + 1].rect = rc
                              ELSE mvs = {}]_vars

\* A session whose second pair failed while the first and third windows
\* were moved
C3_Witness ==
    \E s \in Threads :
        /\ pc[s] = "idle" /\ outcome[s] = "returned" /\ Len(cands[s]) >= 3
        /\ \E k \in 1..Len(calls[s]) :
              calls[s][k].hwnd = cands[s][2] /\ ~calls[s][k].ok
        /\ \A i \in {1, 3} :
              \E k \in CallsOn(calls[s], "MoveWindow", cands[s][i]) : calls[s][k].ok

\* C4 (positional pairing): in a tiling step with regions R and candidates
\* W (focused first), n = min(|R|, |W|): the windows acted on are exactly
\* W[1..n] in that order, each once, window i with the rectangle of region
\* i; the call returns normally; the windows beyond n are left as they
\* were; surplus regions and surplus windows are reported with their count.
C4_PositionalPairing ==
    [][\A s \in Threads : TilingStep(s) =>
          LET R     == RegionsOf(s)
              W     == ClaimedOrder(enum_tilable_windows(windows), foreground)
              n     == Min2(Len(R), Len(W))
              cs    == calls'[s]
              shows == SelectSeq(cs, LAMBDA c : c.f = "ShowWindow")
          IN  /\ outcome'[s] = "returned"
              /\ Len(shows) = n
              /\ \A i \in 1..n : shows[i].hwnd = W[i]
              /\ \A k \in 1..Len(cs) :
                    cs[k].f = "MoveWindow" =>
                        \E i \in 1..n :
                            /\ cs[k].hwnd = W[i]
                            /\ cs[k].rect = TileRect2(R[i], SCREEN_W, SCREEN_H)
                            /\ CallsOn(cs, "MoveWindow", W[i]) = {k}
              /\ \A j \in 1..Len(windows) :
                    (\A i \in 1..n : W[i] # windows[j].hwnd) => windows'[j] = windows[j]
              /\ InSeq(Msg("regions_unused", Len(R) - n, 0), tlog'[s]) <=> Len(R) > n
              /\ InSeq(Msg("windows_untiled", Len(W) - n, 0), tlog'[s]) <=> Len(W) > n]_vars

\* Three regions and one eligible window: one window acted on, two regions
\* reported unused
C4_Witness ==
    \E s \in Threads :
        /\ pc[s] = "idle" /\ outcome[s] = "returned" /\ Len(cands[s]) = 1
        /\ Len(SelectSeq(calls[s], LAMBDA c : c.f = "MoveWindow" /\ c.ok)) = 1
        /\ InSeq(Msg("regions_unused", 2, 0), tlog[s])

\* Two regions and three eligible windows: two windows acted on, one window
\* reported untiled
C4_WitnessWindows ==
    \E s \in Threads :
        /\ pc[s] = "idle" /\ outcome[s] = "returned" /\ Len(cands[s]) = 3
        /\ Len(SelectSeq(calls[s], LAMBDA c : c.f = "ShowWindow")) = 2
        /\ InSeq(Msg("windows_untiled", 1, 0), tlog[s])

\* C10 (candidate order): in a tiling step the candidate list is the
\* enumeration of the eligible windows with the focused window, when it is
\* one of them, moved to the front: the others keep their enumeration
\* order, and no window is gained, lost or duplicated.
C10_CandidateOrder ==
    [][\A s \in Threads : TilingStep(s) =>
          LET E == enum_tilable_windows(windows)
              c == cands'[s]
          IN  /\ Len(c) = Len(E)
              /\ {c[i] : i \in 1..Len(c)} = {E[i] : i \in 1..Len(E)}
              /\ \A i, j \in 1..Len(c) : i # j => c[i] # c[j]
              /\ IF InSeq(foreground, E)
                 THEN /\ c[1] = foreground
                      /\ Tail(c) = SelectSeq(E, LAMBDA h : h # foreground)
                 ELSE c = E]_vars

\* A session in which the focused window was the last of three eligible
\* windows in enumeration order and came first in the candidate list
C10_Witness ==
    \E s \in Threads :
        /\ pc[s] = "idle" /\ outcome[s] = "returned"
        /\ cands[s] = <<103, 101, 102>>
        /\ foreground = 103
        /\ calls[s] # <<>> /\ calls[s][1].hwnd = 103

(***************************************************************************)
(* Gesture classification: one session at a time over every sample of up   *)
(* to MaxPts points, with every gesture mapped or only the last one        *)
(***************************************************************************)
MaxPts == 8

GesturePoints == {PtA, PtB, PtC}
GestureSamples == SeqsUpTo(GesturePoints, MaxPts)

\* A mapping with a different region list for every gesture, and one with a
\* region for V_shape only
AllMapped ==
    Dict([g \in {GestureNames[i] : i \in 1..Len(GestureNames)} |->
            CASE g = "L_down_right" -> List(<<RLeft>>)
              [] g = "L_up_right"   -> List(<<RRight>>)
              [] g = "L_down_left"  -> List(<<RInner>>)
              [] g = "L_up_left"    -> List(<<RLeft, RRight>>)
              [] g = "V_shape"      -> List(<<RRight, RLeft>>)])
OnlyVMapped == Dict([g \in {"V_shape"} |-> List(<<RRight>>)])
GestureFiles == { FileOf(Dump(AllMapped)), FileOf(Dump(OnlyVMapped)) }

InitGesture ==
    /\ proc = "listen"
    /\ file \in GestureFiles
    /\ mappings = load_mappings(file)
    /\ savePc = "idle"
    /\ wbuf = <<>>
    /\ startFile = file
    /\ loaded = mappings
    /\ saveArg = None
    /\ saveFrom = file
    /\ edits = 0
    /\ displays = StdDisplays
    /\ SCREEN_W = displays[1].rect[3] - displays[1].rect[1]
    /\ SCREEN_H = displays[1].rect[4] - displays[1].rect[2]
    /\ windows = MkWindows(<< <<TRUE, "App", FALSE, TRUE, 1>> >>)
    /\ foreground = 0
    /\ RecorderInit
    /\ SessionsInit
    /\ EditorInit

NextGesture ==
    \/ on_hotkey(1)
    \/ \E s \in Threads :
          \/ clear_acquire(s)
          \/ clear_do(s)
          \/ record(s, GestureSamples)
          \/ fetch_acquire(s)
          \/ fetch_copy(s)
          \/ fetch_clear(s)
          \/ classify(s)

SpecGesture == InitGesture /\ [][NextGesture]_vars

\* The declared order of the predicates
DeclaredOrder == <<"L_down_right", "L_up_right", "L_down_left", "L_up_left", "V_shape">>

\* The positions in the declared order whose predicate holds of a sample
Matches(sample) == {i \in 1..Len(DeclaredOrder) : GESTURES(DeclaredOrder[i], sample)}

\* The "detected" messages of a log
Detections(lg) == SelectSeq(lg, LAMBDA m : m.k = "detected")

\* C5 (first match wins): the step that classifies a sample acts on at most
\* one gesture; with no predicate holding it reports no match; otherwise the
\* gesture detected is the first in the order L_down_right, L_up_right,
\* L_down_left, L_up_left, V_shape whose predicate holds, tile_window is
\* called for that gesture's mapping only, and when that gesture has no
\* mapping nothing is tiled even if a later predicate holds too.
C5_FirstMatchWins ==
    [][\A s \in Threads : ClassifyStep(s) =>
          LET M == Matches(arr[s]) IN
          IF M = {}
          THEN /\ outcome'[s] = "no_match"
               /\ invoked'[s] = <<>> /\ calls'[s] = <<>>
               /\ Detections(tlog'[s]) = <<>>
          ELSE LET g == DeclaredOrder[CHOOSE i \in M : \A j \in M : i <= j] IN
               /\ Detections(tlog'[s]) = <<GMsg("detected", g)>>
               /\ IF g \in DOMAIN mappings.d
                  THEN /\ invoked'[s] = <<g>>
                       /\ \A k \in 1..Len(calls'[s]) :
                             calls'[s][k].f = "MoveWindow" =>
                                 calls'[s][k].rect =
                                     TileRect2(TileRegions(mappings.d[g]).items[1],
                                               SCREEN_W, SCREEN_H)
                  ELSE /\ outcome'[s] = "no_mapping"
                       /\ invoked'[s] = <<>> /\ calls'[s] = <<>>]_vars

\* A session whose sample satisfies both L_down_left and V_shape, and which
\* tiled for L_down_left
C5_Witness ==
    \E s \in Threads :
        /\ pc[s] = "idle"
        /\ GESTURES("L_down_left", arr[s]) /\ GESTURES("V_shape", arr[s])
        /\ invoked[s] = <<"L_down_left">>
        /\ \E k \in 1..Len(calls[s]) : calls[s][k].f = "MoveWindow" /\ calls[s][k].ok

\* A session whose sample satisfies both L_down_left and V_shape with only
\* V_shape mapped: nothing tiled
C5_WitnessUnmapped ==
    \E s \in Threads :
        /\ pc[s] = "idle"
        /\ GESTURES("L_down_left", arr[s]) /\ GESTURES("V_shape", arr[s])
        /\ "L_down_left" \notin DOMAIN mappings.d /\ "V_shape" \in DOMAIN mappings.d
        /\ outcome[s] = "no_mapping" /\ calls[s] = <<>>

(***************************************************************************)
(* The point buffer: the listener thread appends while up to MaxSessions   *)
(* trigger threads clear and fetch                                         *)
(***************************************************************************)
MaxMoves == 3

\* The k-th point the mouse reports (every point different, to follow it)
PointNo(k) == <<k, 0>>

InitRec ==
    /\ proc = "listen"
    /\ file = FileOf(Dump(EmptyDict))
    /\ mappings = load_mappings(file)
    /\ savePc = "idle"
    /\ wbuf = <<>>
    /\ startFile = file
    /\ loaded = mappings
    /\ saveArg = None
    /\ saveFrom = file
    /\ edits = 0
    /\ OsAtRest
    /\ RecorderInit
    /\ SessionsInit
    /\ EditorInit

NextRec ==
    \/ on_hotkey(MaxSessions)
    \/ on_move_acquire(PointNo(moves + 1), MaxMoves)
    \/ on_move_append
    \/ \E s \in Threads :
          \/ clear_acquire(s)
          \/ clear_do(s)
          \/ wake(s)
          \/ fetch_acquire(s)
          \/ fetch_copy(s)
          \/ fetch_clear(s)
          \/ classify(s)

SpecRec == InitRec /\ [][NextRec]_vars

\* The threads inside a `with self.lock:` block
InLock ==
    {s \in Threads : pc[s] \in {"clearing", "copy", "drain"}}
    \cup (IF mpc = "append" THEN {Listener} ELSE {})

\* Thread s has its sample (fetch has returned in its latest session)
Fetched(s) == pc[s] = "classify" \/ (pc[s] = "idle" /\ outcome[s] # "none")

\* C8 (point buffer under one lock): at most one thread is inside on_move's,
\* clear's or fetch's locked block, and it holds the lock; no point is in the
\* samples of two sessions, in one sample twice, or in a sample and still in
\* the buffer; a session that no other session overlapped has as its sample
\* exactly the points appended between its clear and its fetch, in append
\* order.
C8_BufferUnderLock ==
    /\ Cardinality(InLock) <= 1
    /\ \A t \in InLock : lock = t
    /\ InLock = {} => lock = 0
    /\ \A s \in Threads :
          /\ \A i, j \in 1..Len(arr[s]) : i # j => arr[s][i] # arr[s][j]
          /\ \A t \in Threads \ {s} :
                \A i \in 1..Len(arr[s]) : ~InSeq(arr[s][i], arr[t])
          /\ Fetched(s) => \A i \in 1..Len(arr[s]) : ~InSeq(arr[s][i], pts)
          /\ (Fetched(s) /\ ~overlapped[s]) =>
                arr[s] = [i \in 1..(fetchAt[s] - clearAt[s]) |-> PointNo(clearAt[s] + i)]

\* A session no other overlapped that had points cleared before it began
\* recording and fetched two points in order
C8_Witness ==
    \E s \in Threads :
        /\ Fetched(s) /\ ~overlapped[s]
        /\ clearAt[s] >= 1
        /\ Len(arr[s]) >= 2

\* Two sessions in progress at once, each with a point in its sample
C8_WitnessTwo ==
    \E s, t \in Threads :
        /\ s # t /\ Fetched(s) /\ Fetched(t) /\ overlapped[s]
        /\ arr[s] # <<>> /\ arr[t] # <<>>

(***************************************************************************)
(* Failures inside a session: mappings whose regions make tile_window      *)
(* raise, OS calls that raise, samples that match nothing                  *)
(***************************************************************************)
MaxFailWins == 2

RNaN == Region(NaN, F0, F12, F1)

\* Mapping files: no entry, a list whose second region has a NaN fraction, a
\* single region with one, and a list of two good regions
FailFiles ==
    { FileOf(Dump(EmptyDict)) }
    \cup { FileOf(Dump(Dict([k \in {"L_down_right"} |-> v]))) :
              v \in { List(<<RLeft, RNaN, RRight>>), RNaN, List(<<RLeft, RRight>>),
                      List(<<>>) } }

InitFail ==
    /\ proc = "listen"
    /\ file \in FailFiles
    /\ mappings = load_mappings(file)
    /\ savePc = "idle"
    /\ wbuf = <<>>
    /\ startFile = file
    /\ loaded = mappings
    /\ saveArg = None
    /\ saveFrom = file
    /\ edits = 0
    /\ displays = StdDisplays
    /\ SCREEN_W = displays[1].rect[3] - displays[1].rect[1]
    /\ SCREEN_H = displays[1].rect[4] - displays[1].rect[2]
    /\ windows \in { MkWindows(ks) : ks \in SeqsUpTo(WinKinds, MaxFailWins) }
    /\ foreground \in {0} \cup Hwnds(windows)
    /\ RecorderInit
    /\ SessionsInit
    /\ EditorInit

NextFail ==
    \/ on_hotkey(1)
    \/ \E s \in Threads :
          \/ clear_acquire(s)
          \/ clear_do(s)
          \/ record(s, TileSamples)
          \/ fetch_acquire(s)
          \/ fetch_copy(s)
          \/ fetch_clear(s)
          \/ classify(s)

SpecFail == InitFail /\ [][NextFail]_vars

\* Thread s has ended a session
Ended(s) == pc[s] = "idle" /\ outcome[s] # "none"

\* C11 (failure containment): whatever happens in a session (no match, no
\* mapping, no region, no window, an OS call that raises, an exception that
\* leaves tile_window) the listening process goes on running, and when the
\* session has ended a hotkey press can start a new one.
C11_FailureContainment ==
    /\ proc = "listen"
    /\ (\A s \in Threads : ~Live(s)) => ENABLED on_hotkey(1)

\* A session has ended with an exception that left tile_window after the
\* first window was moved
C11_Witness ==
    \E s \in Threads :
        /\ Ended(s) /\ outcome[s] = "raised"
        /\ \E k \in 1..Len(calls[s]) : calls[s][k].f = "MoveWindow" /\ calls[s][k].ok
        /\ proc = "listen"

\* The gesture a sample is classified as, where some predicate holds of it
FirstMatch(sample) == DeclaredOrder[CHOOSE i \in Matches(sample) : \A j \in Matches(sample) : i <= j]

\* The matched gesture of thread s has nothing to tile with: no mapping
\* entry, a value that normalises to no region, or no eligible window
NothingToTile(s) ==
    /\ Matches(arr[s]) # {}
    /\ LET g == FirstMatch(arr[s]) IN
       \/ g \notin DOMAIN mappings.d
       \/ KeptEntries(mappings.d[g]).items = <<>>
       \/ enum_tilable_windows(windows) = <<>>

Warnings == {"no_mapping", "invalid_mapping", "no_candidates"}

\* C12 (empty inputs are a no-op): when the matched gesture has no mapping
\* entry, or its value normalises to no region, or there is no eligible
\* window, the classifying step makes no OS call, leaves every window as it
\* is, raises nothing, and logs the detection and one warning.
C12_EmptyNoOp ==
    [][\A s \in Threads : (ClassifyStep(s) /\ NothingToTile(s)) =>
          /\ calls'[s] = <<>>
          /\ windows' = windows
          /\ outcome'[s] \in {"no_mapping", "returned"}
          /\ Len(tlog'[s]) = 2
          /\ tlog'[s][1] = GMsg("detected", FirstMatch(arr[s]))
          /\ tlog'[s][2].k \in Warnings]_vars

\* A session that matched a gesture mapped to the empty list, with an
\* eligible window on the desktop
C12_Witness ==
    \E s \in Threads :
        /\ Ended(s) /\ invoked[s] = <<"L_down_right">>
        /\ mappings.d["L_down_right"] = List(<<>>)
        /\ enum_tilable_windows(windows) # <<>>
        /\ calls[s] = <<>> /\ tlog[s][2].k = "invalid_mapping"

\* A session that matched a mapped gesture with windows on the desktop none
\* of which is eligible
C12_WitnessNoWindow ==
    \E s \in Threads :
        /\ Ended(s) /\ invoked[s] = <<"L_down_right">>
        /\ windows # <<>> /\ enum_tilable_windows(windows) = <<>>
        /\ calls[s] = <<>> /\ tlog[s][2].k = "no_candidates"

\* A session that matched a gesture without mapping entry
C12_WitnessNoMapping ==
    \E s \in Threads :
        /\ Ended(s) /\ outcome[s] = "no_mapping"
        /\ enum_tilable_windows(windows) # <<>>
        /\ calls[s] = <<>> /\ tlog[s][2].k = "no_mapping"

(***************************************************************************)
(* The region editor: ConfigWindow.openSelector, the RegionSelector's      *)
(* buttons and the mouse handling of its frames (ResizableFrame)           *)
(***************************************************************************)
EDGE_MARGIN == 10
MIN_WIDTH == 40
MIN_HEIGHT == 30

MaxDrags == 1
MaxFrames == 1

\* find_qscreen_for_monitor_rect(mon_rect): the first screen whose physical
\* top-left corner is within 4 pixels of the rectangle's, else the primary
find_qscreen_for_monitor_rect(ds, mon_rect) ==
    LET near == {j \in 1..Len(ds) :
                    /\ Abs(PyIntMul(ds[j].geom[1], ds[j].dpr) - mon_rect[1]) <= 4
                    /\ Abs(PyIntMul(ds[j].geom[2], ds[j].dpr) - mon_rect[2]) <= 4}
    IN  IF near = {} THEN ds[1] ELSE ds[CHOOSE j \in near : \A k \in near : j <= k]

\* The rectangle region.get('monitor') gives when it is a list of four
\* with positive extent, else the primary rectangle captured at import
MonitorOfRegion(region, sw, sh) ==
    LET mon == DictGet(region, "monitor", None) IN
    IF /\ mon.t = "list"
       /\ Len(mon.items) = 4
       /\ mon.items[3].n - mon.items[1].n > 0
       /\ mon.items[4].n - mon.items[2].n > 0
    THEN <<mon.items[1].n, mon.items[2].n, mon.items[3].n, mon.items[4].n>>
    ELSE <<0, 0, sw, sh>>

\* _create_handle_from_region(region): the geometry of the frame shown for a
\* stored region, Raise when round() meets a fraction that is not a number
create_handle_from_region(ds, sw, sh, region) ==
    LET x_frac == DictGet(region, "x_frac", Num(0, 1))
        y_frac == DictGet(region, "y_frac", Num(0, 1))
        w_frac == DictGet(region, "w_frac", Num(1, 1))
        h_frac == DictGet(region, "h_frac", Num(1, 1))
    IN  IF IsNaN(x_frac) \/ IsNaN(y_frac) \/ IsNaN(w_frac) \/ IsNaN(h_frac)
        THEN Raise
        ELSE
        LET mon    == MonitorOfRegion(region, sw, sh)
            mon_w  == mon[3] - mon[1]
            mon_h  == mon[4] - mon[2]
            phys_x == mon[1] + PyRound(x_frac.n * mon_w, x_frac.d)
            phys_y == mon[2] + PyRound(y_frac.n * mon_h, y_frac.d)
            phys_w == Max2(MIN_WIDTH, PyRound(w_frac.n * mon_w, w_frac.d))
            phys_h == Max2(MIN_HEIGHT, PyRound(h_frac.n * mon_h, h_frac.d))
            dpr    == find_qscreen_for_monitor_rect(ds, mon).dpr
        IN  <<PyRound(phys_x * dpr.d, dpr.n),
              PyRound(phys_y * dpr.d, dpr.n),
              Max2(PyRound(phys_w * dpr.d, dpr.n), MIN_WIDTH),
              Max2(PyRound(phys_h * dpr.d, dpr.n), MIN_HEIGHT)>>

\* ConfigWindow.openSelector(gesture_name): RegionSelector.__init__ and initUI
\* make one frame per region of the gesture; an exception that leaves the
\* slot ends the process (PyQt6 aborts on an unhandled exception in a slot)
openSelector(gesture_name) ==
    /\ proc = "config"
    /\ savePc = "idle"
    /\ LET saved == DictGet(mappings, gesture_name, List(<<>>)).items
           made  == [i \in 1..Len(saved) |->
                       create_handle_from_region(displays, SCREEN_W, SCREEN_H, saved[i])]
       IN  IF \E i \in 1..Len(made) : made[i] = Raise
           THEN /\ proc' = "down"
                /\ mappings' = EmptyDict
                /\ selector' = ""
                /\ handles' = <<>>
           ELSE /\ selector' = gesture_name
                /\ handles' = made
                /\ UNCHANGED <<proc, mappings>>
    /\ UNCHANGED <<file, savePc, wbuf, startFile, loaded, saveArg, saveFrom, edits>>
    /\ UNCHANGED <<drags, regs, schedVars, osVars, recVars, sessVars>>

\* RegionSelector.add_region_default ("Add Region")
add_region_default ==
    /\ proc = "config"
    /\ savePc = "idle"
    /\ selector # ""
    /\ Len(handles) < MaxFrames
    /\ LET w == SCREEN_W \div 4
           h == SCREEN_H \div 4
           x == (SCREEN_W - w) \div 2
           y == (SCREEN_H - h) \div 2
       IN  handles' = Append(handles, <<x, y, w, h>>)
    /\ UNCHANGED <<storeVars, osVars, recVars, sessVars, selector, drags, regs, schedVars>>

\* RegionSelector.remove_last ("Remove Last")
remove_last ==
    /\ proc = "config"
    /\ savePc = "idle"
    /\ selector # ""
    /\ handles' = IF handles = <<>> THEN handles ELSE SubSeq(handles, 1, Len(handles) - 1)
    /\ UNCHANGED <<storeVars, osVars, recVars, sessVars, selector, drags, regs, schedVars>>

\* A Cancel that keeps what the frames show, to compare with
close_Commit ==
    /\ proc = "config"
    /\ savePc = "idle"
    /\ selector # ""
    /\ mappings' = onSaveMapping(mappings, displays, selector, handles)
    /\ selector' = ""
    /\ handles' = <<>>
    /\ UNCHANGED <<proc, file, savePc, wbuf, startFile, loaded, saveArg, saveFrom, edits>>
    /\ UNCHANGED <<osVars, recVars, sessVars, drags, regs, schedVars>>

\* "Cancel": the button is connected to RegionSelector.close
close ==
    /\ proc = "config"
    /\ savePc = "idle"
    /\ selector # ""
    /\ selector' = ""
    /\ handles' = <<>>
    /\ UNCHANGED <<storeVars, osVars, recVars, sessVars, drags, regs, schedVars>>

\* ResizableFrame.mousePressEvent at the local point (lx, ly) of a frame
\* w x h: the edges hit; no edge hit starts a move
mousePressEvent(w, h, lx, ly) ==
    [left   |-> lx <= EDGE_MARGIN,
     right  |-> lx >= w - EDGE_MARGIN,
     top    |-> ly <= EDGE_MARGIN,
     bottom |-> ly >= h - EDGE_MARGIN]

\* ResizableFrame.mouseMoveEvent while the button is held: the geometry of
\* the frame once the mouse is (dx, dy) away from where it was pressed
mouseMoveEvent(geom, edges, dx, dy) ==
    IF ~(edges.left \/ edges.right \/ edges.top \/ edges.bottom)
    THEN <<geom[1] + dx, geom[2] + dy, geom[3], geom[4]>>
    ELSE LET left   == IF edges.left THEN geom[1] + dx ELSE geom[1]
             right  == (geom[1] + geom[3] - 1) + (IF edges.right THEN dx ELSE 0)
             top    == IF edges.top THEN geom[2] + dy ELSE geom[2]
             bottom == (geom[2] + geom[4] - 1) + (IF edges.bottom THEN dy ELSE 0)
             new_left   == Min2(left, right)
             new_top    == Min2(top, bottom)
             new_right  == Max2(left, right)
             new_bottom == Max2(top, bottom)
         IN  <<new_left, new_top,
               Max2(MIN_WIDTH, new_right - new_left + 1),
               Max2(MIN_HEIGHT, new_bottom - new_top + 1)>>

\* The pointer stays on the desktop
OnDesktop(ds, x, y) ==
    \E j \in 1..Len(ds) :
        InRect(x, y, <<ds[j].geom[1], ds[j].geom[2],
                       ds[j].geom[1] + ds[j].geom[3], ds[j].geom[2] + ds[j].geom[4]>>)

\* Where a frame of geometry geom is pressed, in its local coordinates: in
\* its middle, or in its bottom-right corner
PressPoint(geom, where) ==
    IF where = "middle" THEN <<geom[3] \div 2, geom[4] \div 2>>
    ELSE <<geom[3] - 5, geom[4] - 5>>

\* One mouse gesture on frame i: pressed at the given place, moved by d,
\* released (mousePressEvent, mouseMoveEvent, mouseReleaseEvent)
mouse(i, where, d) ==
    /\ proc = "config"
    /\ savePc = "idle"
    /\ selector # ""
    /\ drags < MaxDrags
    /\ i \in 1..Len(handles)
    /\ LET geom == handles[i]
           lp   == PressPoint(geom, where)
           gx   == displays[1].geom[1] + geom[1] + lp[1]
           gy   == displays[1].geom[2] + geom[2] + lp[2]
       IN  /\ 0 <= lp[1] /\ lp[1] < geom[3]
           /\ 0 <= lp[2] /\ lp[2] < geom[4]
           /\ OnDesktop(displays, gx, gy)
           /\ OnDesktop(displays, gx + d[1], gy + d[2])
           /\ handles' = [handles EXCEPT ![i] =
                             mouseMoveEvent(geom, mousePressEvent(geom[3], geom[4], lp[1], lp[2]),
                                            d[1], d[2])]
    /\ drags' = drags + 1
    /\ UNCHANGED <<storeVars, osVars, recVars, sessVars, selector, regs, schedVars>>

\* "Save" of the open selector: onSave with its gesture and its frames
selector_onSave ==
    /\ selector # ""
    /\ onSave(selector, handles)

(***************************************************************************)
(* The configurator with the region editor, while hotkey sessions run      *)
(***************************************************************************)
PressPlaces == { "middle", "corner" }

\* How far the mouse travels while the button is held
MouseDeltas == { <<-960, 0>>, <<1900, 0>> }

\* The mouse movements recorded: down then right, none
EditSamples == { StrokeLDownRight, <<>> }

EditFiles ==
    { NoFile, FileOf(Dump(Dict([k \in {"L_down_right"} |-> List(<<RLeft>>)]))) }

InitEdit ==
    /\ proc = "config"
    /\ file \in EditFiles
    /\ mappings = load_mappings(file)
    /\ savePc = "idle"
    /\ wbuf = <<>>
    /\ startFile = file
    /\ loaded = mappings
    /\ saveArg = None
    /\ saveFrom = file
    /\ edits = 0
    /\ displays = StdDisplays
    /\ SCREEN_W = 1920
    /\ SCREEN_H = 1080
    /\ windows = MkWindows(<< <<TRUE, "App", FALSE, TRUE, 1>> >>)
    /\ foreground = 0
    /\ RecorderInit
    /\ SessionsInit
    /\ EditorInit

NextEdit ==
    \/ \E g \in EditGestures : openSelector(g)
    \/ add_region_default
    \/ remove_last
    \/ close
    \/ \E i \in 1..MaxFrames, where \in PressPlaces, d \in MouseDeltas : mouse(i, where, d)
    \/ selector_onSave
    \/ ConfigSave
    \/ SaveFlush
    \/ SaveClose
    \/ on_hotkey(1)
    \/ \E s \in Threads :
          \/ clear_acquire(s)
          \/ clear_do(s)
          \/ record(s, EditSamples)
          \/ fetch_acquire(s)
          \/ fetch_copy(s)
          \/ fetch_clear(s)
          \/ classify(s)

SpecEdit == InitEdit /\ [][NextEdit]_vars

\* The step is RegionSelector's Save: the handler counted one more save and
\* began writing
SelectorSaveStep == edits' = edits + 1 /\ savePc' = "selector"

\* The step belongs to a save_mappings call made by one of the two Save handlers
ExplicitSaveStep == savePc' \in {"selector", "config"} \/ savePc \in {"selector", "config"}

\* The step is a hotkey press, part of a session (recording, classification,
\* tiling), or Add Region, Remove Last, Cancel or a mouse gesture in the editor
OtherStep ==
    \/ pc' # pc
    \/ pts' # pts
    \/ (savePc = "idle" /\ savePc' = "idle" /\ (handles' # handles \/ selector' # selector))

\* C13: the mapping in memory changes only in a step of the region editor's
\* Save, the file only in a step of a save started by RegionSelector's Save or
\* by ConfigWindow's Save & Exit; hotkey presses, sessions with their tiling,
\* Add Region, Remove Last and Cancel change neither
C13_MappingLifecycle ==
    [][ /\ (mappings' # mappings => SelectorSaveStep)
        /\ (file' # file => ExplicitSaveStep)
        /\ (OtherStep => mappings' = mappings /\ file' = file) ]_vars

\* A frame was added or moved and the editor closed without a save, a session
\* has tiled a window, and mapping and file are as loaded
C13_Witness ==
    /\ drags > 0
    /\ selector = ""
    /\ edits = 0
    /\ \E s \in Threads : pc[s] = "idle" /\ calls[s] # <<>>
    /\ mappings = loaded
    /\ file = startFile

\* The editor's Save has replaced the mapping and the file holds it
C13_WitnessSaved ==
    /\ edits = 1
    /\ savePc = "idle"
    /\ mappings # loaded
    /\ file = FileOf(Dump(mappings))

(***************************************************************************)
(* Strokes at the threshold: sessions whose mouse movement has each tested *)
(* displacement at MIN_STROKE or one pixel beyond                          *)
(***************************************************************************)
EdgeLengths == { MIN_STROKE, MIN_STROKE + 1 }

\* Six points: straight down or up by b, then straight right or left by c
LEdge(sy, sx, b, c) ==
    << <<0, 0>>, <<0, 0>>, <<0, sy * b>>, <<0, sy * b>>, <<0, sy * b>>, <<sx * c, sy * b>> >>

\* Eight points: down-right by (a, b), then up-right by (c, d), then at rest
VEdge(a, b, c, d) ==
    << <<0, 0>>, <<0, 0>>, <<a, b>>, <<a, b>>,
       <<a + c, b - d>>, <<a + c, b - d>>, <<a + c, b - d>>, <<a + c, b - d>> >>

EdgeSamples ==
    { LEdge(sy, sx, b, c) : sy \in {-1, 1}, sx \in {-1, 1}, b \in EdgeLengths, c \in EdgeLengths }
    \cup { VEdge(l[1], l[2], l[3], l[4]) :
              l \in EdgeLengths \X EdgeLengths \X EdgeLengths \X EdgeLengths }

InitStroke ==
    /\ proc = "listen"
    /\ file \in GestureFiles
    /\ mappings = load_mappings(file)
    /\ savePc = "idle"
    /\ wbuf = <<>>
    /\ startFile = file
    /\ loaded = mappings
    /\ saveArg = None
    /\ saveFrom = file
    /\ edits = 0
    /\ displays = StdDisplays
    /\ SCREEN_W = displays[1].rect[3] - displays[1].rect[1]
    /\ SCREEN_H = displays[1].rect[4] - displays[1].rect[2]
    /\ windows = MkWindows(<< <<TRUE, "App", FALSE, TRUE, 1>> >>)
    /\ foreground = 0
    /\ RecorderInit
    /\ SessionsInit
    /\ EditorInit

NextStroke ==
    \/ on_hotkey(1)
    \/ \E s \in Threads :
          \/ clear_acquire(s)
          \/ clear_do(s)
          \/ record(s, EdgeSamples)
          \/ fetch_acquire(s)
          \/ fetch_copy(s)
          \/ fetch_clear(s)
          \/ classify(s)

SpecStroke == InitStroke /\ [][NextStroke]_vars

\* The direction signs (sy, sx) of the four L gestures, y growing downward
LSigns ==
    [g \in {"L_down_right", "L_up_right", "L_down_left", "L_up_left"} |->
        CASE g = "L_down_right" -> <<1, 1>>
          [] g = "L_up_right"   -> <<-1, 1>>
          [] g = "L_down_left"  -> <<1, -1>>
          [] g = "L_up_left"    -> <<-1, -1>>]

\* The displacement from point i to point j of a sample (indices from 1)
Disp(q, i, j) == <<q[j][1] - q[i][1], q[j][2] - q[i][2]>>

\* The displacements an L predicate with signs sg tests on a six-point
\* sample, each taken in the expected direction: first-half vertical,
\* second-half horizontal
LTested(q, sg) == << sg[1] * Disp(q, 1, 3)[2], sg[2] * Disp(q, 4, 6)[1] >>

\* The displacements the V predicate tests on an eight-point sample, each in
\* the expected direction
VTested(q) == << Disp(q, 1, 3)[2], Disp(q, 1, 3)[1], -Disp(q, 3, 5)[2], Disp(q, 3, 5)[1] >>

SomeAt(ds, len) == \E k \in 1..Len(ds) : ds[k] = len
AllBeyond(ds, len) == \A k \in 1..Len(ds) : ds[k] > len

\* C14: the threshold is exclusive.  Of a session that has ended on a
\* six-point stroke, an L gesture is not detected when its first-half
\* vertical or its second-half horizontal displacement, taken in the
\* gesture's direction, is exactly MIN_STROKE = 80, and is detected when both
\* are beyond it (81); on an eight-point stroke V_shape is not detected
\* when one of its four tested displacements is exactly 80 and is detected
\* when all are beyond it.
C14_ExclusiveThreshold ==
    \A s \in Threads : Ended(s) =>
        LET q == arr[s]
            det == Detections(tlog[s])
        IN  /\ MIN_STROKE = 80
            /\ Len(q) = 6 =>
                  \A g \in DOMAIN LSigns :
                     /\ SomeAt(LTested(q, LSigns[g]), 80) => det # <<GMsg("detected", g)>>
                     /\ AllBeyond(LTested(q, LSigns[g]), 80) => det = <<GMsg("detected", g)>>
            /\ Len(q) = 8 =>
                  /\ SomeAt(VTested(q), 80) => det # <<GMsg("detected", "V_shape")>>
                  /\ AllBeyond(VTested(q), 80) => det = <<GMsg("detected", "V_shape")>>

\* A session ended without a match on a stroke 80 down then 81 right
C14_Witness ==
    \E s \in Threads :
        /\ Ended(s)
        /\ arr[s] = LEdge(1, 1, 80, 81)
        /\ outcome[s] = "no_match"

\* A session detected L_down_right on a stroke 81 down then 81 right
C14_WitnessBeyond ==
    \E s \in Threads :
        /\ Ended(s)
        /\ arr[s] = LEdge(1, 1, 81, 81)
        /\ Detections(tlog[s]) = <<GMsg("detected", "L_down_right")>>

\* A session ended without a match on a V stroke whose second part goes
\* right by exactly 80, the other three displacements being 81
C14_WitnessV ==
    \E s \in Threads :
        /\ Ended(s)
        /\ arr[s] = VEdge(81, 81, 80, 81)
        /\ outcome[s] = "no_match"

(***************************************************************************)
(* Short samples                                                           *)
(***************************************************************************)
\* C15: of a session that has ended, no L gesture is detected when its
\* sample has fewer than 6 points and V_shape is not detected when it has
\* fewer than 8, whatever the points; a session with fewer than 6 points
\* (the empty sample too) reports no match and makes no ShowWindow or
\* MoveWindow call.
C15_MinimumLength ==
    \A s \in Threads : Ended(s) =>
        LET det == Detections(tlog[s]) IN
        /\ Len(arr[s]) < 6 =>
              /\ \A g \in DOMAIN LSigns : det # <<GMsg("detected", g)>>
              /\ outcome[s] = "no_match"
              /\ tlog[s] = <<Msg("no_match", 0, 0)>>
              /\ calls[s] = <<>> /\ invoked[s] = <<>>
        /\ Len(arr[s]) < 8 => det # <<GMsg("detected", "V_shape")>>

\* A session ended without a match on five points that go down and then
\* right by more than MIN_STROKE
C15_Witness ==
    \E s \in Threads :
        /\ Ended(s)
        /\ arr[s] = <<PtA, PtB, PtA, PtA, PtC>>
        /\ outcome[s] = "no_match" /\ calls[s] = <<>>

\* A session ended without a match on the empty sample
C15_WitnessEmpty ==
    \E s \in Threads : Ended(s) /\ arr[s] = <<>> /\ outcome[s] = "no_match"

\* A session ended without a match on seven points that go down-right and
\* then up-right by more than MIN_STROKE
C15_WitnessV ==
    \E s \in Threads :
        /\ Ended(s)
        /\ arr[s] = <<PtA, PtA, PtB, PtB, PtC, PtC, PtC>>
        /\ outcome[s] = "no_match"

(***************************************************************************)
(* A desktop whose display configuration changes while the process listens *)
(***************************************************************************)
\* The standard displays after the resolution of both is lowered to 1280x720
LowResDisplays ==
    << Display(<<0, 0, 1280, 720>>, <<0, 0, 1280, 720>>, Num(1, 1)),
       Display(<<1280, 0, 2560, 720>>, <<1280, 0, 1280, 720>>, Num(1, 1)) >>

\* The standard displays after the second is moved to the left of the primary
LeftDisplays ==
    << Display(<<0, 0, 1920, 1080>>, <<0, 0, 1920, 1080>>, Num(1, 1)),
       Display(<<-1920, 0, 0, 1080>>, <<-1920, 0, 1920, 1080>>, Num(1, 1)) >>

DisplayLayouts == { StdDisplays, LowResDisplays, LeftDisplays }

\* The user changes the resolution or the arrangement of the displays; the
\* module globals SCREEN_W and SCREEN_H keep what GetSystemMetrics gave at import
display_change(ds) ==
    /\ ds # displays
    /\ displays' = ds
    /\ UNCHANGED <<SCREEN_W, SCREEN_H, windows, foreground>>
    /\ UNCHANGED <<storeVars, recVars, sessVars, edVars>>

\* One or two application windows, all on the primary display
PrimaryWindows ==
    { MkWindows(<< <<TRUE, "App", FALSE, TRUE, 1>> >>),
      MkWindows(<< <<TRUE, "App", FALSE, TRUE, 1>>, <<TRUE, "App", FALSE, TRUE, 1>> >>) }

DisplayFiles ==
    { FileOf(Dump(Dict([k \in {"L_down_right"} |-> List(<<RLeft>>)]))),
      FileOf(Dump(Dict([k \in {"L_down_right"} |-> List(<<RRight, RInner>>)]))) }

InitDisplay ==
    /\ proc = "listen"
    /\ file \in DisplayFiles
    /\ mappings = load_mappings(file)
    /\ savePc = "idle"
    /\ wbuf = <<>>
    /\ startFile = file
    /\ loaded = mappings
    /\ saveArg = None
    /\ saveFrom = file
    /\ edits = 0
    /\ displays = StdDisplays
    /\ SCREEN_W = displays[1].rect[3] - displays[1].rect[1]
    /\ SCREEN_H = displays[1].rect[4] - displays[1].rect[2]
    /\ windows \in PrimaryWindows
    /\ foreground = 0
    /\ RecorderInit
    /\ SessionsInit
    /\ EditorInit

NextDisplay ==
    \/ \E ds \in DisplayLayouts : display_change(ds)
    \/ on_hotkey(1)
    \/ \E s \in Threads :
          \/ clear_acquire(s)
          \/ clear_do(s)
          \/ record(s, TileSamples)
          \/ fetch_acquire(s)
          \/ fetch_copy(s)
          \/ fetch_clear(s)
          \/ classify(s)

SpecDisplay == InitDisplay /\ [][NextDisplay]_vars

\* C16: a tiling step takes the monitor geometry from the OS as it is when
\* the step is taken: every MoveWindow of the step has the rectangle its
\* region's fractions give on the monitor rectangle the OS reports for that
\* window then, also after the display configuration has changed since the
\* process started.
C16_NoCachedGeometry ==
    [][\A s \in Threads : TilingStep(s) =>
          \A k \in 1..Len(calls'[s]) :
              LET c   == calls'[s][k]
                  cur == get_monitor_rect_for_window(displays, windows, c.hwnd)
              IN  c.f = "MoveWindow" =>
                     \E i \in 1..Min2(Len(RegionsOf(s)), Len(cands'[s])) :
                        /\ cands'[s][i] = c.hwnd
                        /\ c.rect = ClaimedRect(RegionsOf(s)[i], cur)]_vars

(***************************************************************************)
(* What the region editor's Save emits                                     *)
(***************************************************************************)
\* The rectangle a region carries, as <<left, top, right, bottom>>
CarriedRect(r) ==
    <<r.d["monitor"].items[1].n, r.d["monitor"].items[2].n,
      r.d["monitor"].items[3].n, r.d["monitor"].items[4].n>>

\* C17: every region a step of RegionSelector's Save puts into the mapping has
\* its four fractions in [0,1] with w_frac > 0 and h_frac > 0 and carries the
\* rectangle of one of the monitors, wherever the frames were dragged and
\* however they were resized.
C17_EditorOutput ==
    [][SelectorSaveStep =>
          \A i \in 1..Len(mappings'.d[selector].items) :
              LET r == mappings'.d[selector].items[i] IN
              /\ CanonicalRegion(r)
              /\ "monitor" \in DOMAIN r.d
              /\ \E j \in 1..Len(displays) : CarriedRect(r) = displays[j].rect]_vars

(***************************************************************************)
(* Progress of sessions: the listening process with hotkey presses and     *)
(* mouse movement at any time, under fair scheduling of the threads        *)
(***************************************************************************)
ProgressFile == FileOf(Dump(Dict([k \in {"L_down_right"} |-> List(<<RLeft>>)])))

InitProgress ==
    /\ proc = "listen"
    /\ file = ProgressFile
    /\ mappings = load_mappings(file)
    /\ savePc = "idle"
    /\ wbuf = <<>>
    /\ startFile = file
    /\ loaded = mappings
    /\ saveArg = None
    /\ saveFrom = file
    /\ edits = 0
    /\ displays = StdDisplays
    /\ SCREEN_W = displays[1].rect[3] - displays[1].rect[1]
    /\ SCREEN_H = displays[1].rect[4] - displays[1].rect[2]
    /\ windows = MkWindows(<< <<TRUE, "App", FALSE, TRUE, 1>> >>)
    /\ foreground = 0
    /\ RecorderInit
    /\ SessionsInit
    /\ EditorInit

NextProgress ==
    \/ on_hotkey(1)
    \/ on_move_acquire(PointNo(moves + 1), MaxMoves)
    \/ on_move_append
    \/ \E s \in Threads :
          \/ clear_acquire(s)
          \/ clear_do(s)
          \/ record(s, TileSamples)
          \/ wake(s)
          \/ fetch_acquire(s)
          \/ fetch_copy(s)
          \/ fetch_clear(s)
          \/ classify(s)

\* A step of the thread that runs session s
ThreadStep(s) ==
    \/ clear_acquire(s)
    \/ clear_do(s)
    \/ wake(s)
    \/ fetch_acquire(s)
    \/ fetch_copy(s)
    \/ fetch_clear(s)
    \/ classify(s)

\* A thread that can run does run: time.sleep returns, a `with` block is
\* left (by the listener thread in on_move too), the loop over GESTURES and
\* tile_window come to their end, and a thread waiting for Recorder.lock gets
\* it when the lock is free again and again
Fairness ==
    /\ WF_vars(on_move_append)
    /\ \A s \in Threads : SF_vars(ThreadStep(s))

SpecProgress == InitProgress /\ [][NextProgress]_vars /\ Fairness

\* The positions of record_and_action in program order, from the hotkey
\* press (idle -> clear) to the end of the thread (classify -> idle)
StepOrder ==
    { <<"idle", "clear">>, <<"clear", "clearing">>, <<"clearing", "sleep">>,
      <<"sleep", "fetch">>, <<"fetch", "copy">>, <<"copy", "drain">>,
      <<"drain", "classify">>, <<"classify", "idle">> }

\* How a session that has ended turned out
TilingAttempted(s) ==
    /\ Len(invoked[s]) = 1
    /\ tlog[s] # <<>> /\ tlog[s][1] = GMsg("detected", invoked[s][1])
    /\ outcome[s] \in {"returned", "raised"}
MatchedNoMapping(s) ==
    /\ invoked[s] = <<>> /\ calls[s] = <<>>
    /\ Len(tlog[s]) = 2 /\ tlog[s][1].k = "detected" /\ tlog[s][2].k = "no_mapping"
    /\ outcome[s] = "no_mapping"
NoGestureMatched(s) ==
    /\ invoked[s] = <<>> /\ calls[s] = <<>>
    /\ tlog[s] = <<Msg("no_match", 0, 0)>>
    /\ outcome[s] = "no_match"

ExactlyOne(a, b, c) == (a /\ ~b /\ ~c) \/ (~a /\ b /\ ~c) \/ (~a /\ ~b /\ c)

\* C18: every hotkey press starts a session; a session goes through clear,
\* the wait, the drain and one classification in this order, the buffer being
\* emptied at the clear and at the drain, and calls tile_window at most once;
\* a session that has started eventually ends, in exactly one of: matched and
\* tiling attempted, matched but no mapping, no gesture matched; and then its
\* thread is gone while the process goes on listening.
C18_SessionProgress ==
    /\ [][\A s \in Threads :
             /\ pc'[s] # pc[s] => <<pc[s], pc'[s]>> \in StepOrder
             /\ (pc[s] = "clearing" /\ pc'[s] = "sleep") => pts' = <<>>
             /\ (pc[s] = "drain" /\ pc'[s] = "classify") => pts' = <<>>
             /\ Len(invoked'[s]) <= 1]_vars
    /\ [](\A s \in Threads :
             Ended(s) => /\ ExactlyOne(TilingAttempted(s), MatchedNoMapping(s), NoGestureMatched(s))
                         /\ proc = "listen")
    /\ \A s \in Threads : (Live(s) ~> Ended(s))

\* A session has ended with a window tiled, after the listener thread had
\* appended points of its own
C18_Witness ==
    /\ moves > 0
    /\ \E s \in Threads : Ended(s) /\ TilingAttempted(s) /\ calls[s] # <<>>

\* A session has ended without a match
C18_WitnessNoMatch == \E s \in Threads : Ended(s) /\ NoGestureMatched(s)

\* A session has ended with a gesture matched that has no mapping
C18_WitnessNoMapping == \E s \in Threads : Ended(s) /\ MatchedNoMapping(s)

(***************************************************************************)
(* The L-shape predicates                                                  *)
(***************************************************************************)
\* The claimed predicate for signs sg = <<sy, sx>>, as a function of the four
\* points p[0], p[m-1], p[m], p[n-1] alone
ClaimedL(sg, p0, pm1, pm, pn1) ==
    LET v1 == <<pm1[1] - p0[1], pm1[2] - p0[2]>>
        v2 == <<pn1[1] - pm[1], pn1[2] - pm[2]>>
    IN  /\ Abs(v1[2]) > Abs(v1[1])
        /\ sg[1] * v1[2] > MIN_STROKE
        /\ Abs(v2[1]) > Abs(v2[2])
        /\ sg[2] * v2[1] > MIN_STROKE

\* C19: of a session that has ended on a sample of n >= 6 points, with
\* m = n div 2, the L gesture of signs (sy, sx) is the one detected exactly
\* when v1 = p[m-1] - p[0] and v2 = p[n-1] - p[m] satisfy |v1.y| > |v1.x|,
\* sy*v1.y > MIN_STROKE, |v2.x| > |v2.y| and sx*v2.x > MIN_STROKE, with
\* L_down_right (+,+), L_up_right (-,+), L_down_left (+,-), L_up_left (-,-);
\* so the detection depends on those four points only, not on the points
\* strictly inside either half.
C19_LShape ==
    \A s \in Threads : (Ended(s) /\ Len(arr[s]) >= 6) =>
        LET q == arr[s]
            n == Len(q)
            m == n \div 2
        IN  /\ LSigns["L_down_right"] = <<1, 1>> /\ LSigns["L_up_right"] = <<-1, 1>>
            /\ LSigns["L_down_left"] = <<1, -1>> /\ LSigns["L_up_left"] = <<-1, -1>>
            /\ \A g \in DOMAIN LSigns :
                  Detections(tlog[s]) = <<GMsg("detected", g)>>
                     <=> ClaimedL(LSigns[g], q[1], q[m], q[m + 1], q[n])

\* A session detected L_up_left on six points that go up and then left, with
\* the points inside both halves elsewhere
C19_Witness ==
    \E s \in Threads :
        /\ Ended(s)
        /\ arr[s] = <<PtB, PtC, PtA, PtC, PtB, PtA>>
        /\ Detections(tlog[s]) = <<GMsg("detected", "L_up_left")>>

\* A session detected L_down_right on seven points whose p[m-1] and p[m] differ
C19_WitnessSeven ==
    \E s \in Threads :
        /\ Ended(s)
        /\ arr[s] = <<PtA, PtC, PtB, PtA, PtB, PtB, PtC>>
        /\ Detections(tlog[s]) = <<GMsg("detected", "L_down_right")>>

\* A session ended without a match on six points whose first half goes up by
\* 100 and right by 100: the vertical motion does not dominate
C19_WitnessDiagonal ==
    \E s \in Threads :
        /\ Ended(s)
        /\ arr[s] = <<PtB, PtA, PtC, PtA, PtA, PtC>>
        /\ outcome[s] = "no_match"

(***************************************************************************)
(* The V-shape predicate                                                   *)
(***************************************************************************)
\* The claimed predicate: with t = n div 3, the displacement from p[0] to
\* p[2t] goes down and right, that from p[2t] to p[n-1] up and right, each by
\* more than MIN_STROKE on each axis
ClaimedV(q) ==
    LET n  == Len(q)
        t  == n \div 3
        d1 == Disp(q, 1, 2 * t + 1)
        d2 == Disp(q, 2 * t + 1, n)
    IN  /\ d1[2] > MIN_STROKE /\ d1[1] > MIN_STROKE
        /\ d2[2] < -MIN_STROKE /\ d2[1] > MIN_STROKE

\* No L gesture's predicate holds of the sample
NoLShape(q) ==
    LET n == Len(q)
        m == n \div 2
    IN  \A g \in DOMAIN LSigns : ~ClaimedL(LSigns[g], q[1], q[m], q[m + 1], q[n])

\* C20: of a session that has ended on a sample of n >= 8 points of which no
\* L gesture's predicate holds, V_shape is detected exactly when the
\* displacement across the first two-thirds of the sample is downward and
\* rightward by more than MIN_STROKE on each axis and the displacement across
\* the final third is upward and rightward by more than MIN_STROKE on each
\* axis.
C20_VShape ==
    \A s \in Threads : (Ended(s) /\ Len(arr[s]) >= 8 /\ NoLShape(arr[s])) =>
        (Detections(tlog[s]) = <<GMsg("detected", "V_shape")>> <=> ClaimedV(arr[s]))

(***************************************************************************)
(* Pixel rectangles of fractions whose products are not whole numbers      *)
(***************************************************************************)
\* Regions drawn by hand: on a 1920x1080 monitor the products of RFine are
\* 959.6, 360, 640 and 154.28..., those of RCoarse 274.28..., 154.28...,
\* 1280 and 771.42...
RFine   == Region(Num(2399, 4800), Num(1, 3), Num(1, 3), Num(1, 7))
RCoarse == Region(Num(1, 7), Num(1, 7), Num(2, 3), Num(5, 7))

PixelFiles ==
    { FileOf(Dump(Dict([k \in {"L_down_right"} |-> List(<<RLeft>>)]))),
      FileOf(Dump(Dict([k \in {"L_down_right"} |-> List(<<RFine>>)]))),
      FileOf(Dump(Dict([k \in {"L_down_right"} |-> List(<<RCoarse, RFine>>)]))) }

InitPixel ==
    /\ proc = "listen"
    /\ file \in PixelFiles
    /\ mappings = load_mappings(file)
    /\ savePc = "idle"
    /\ wbuf = <<>>
    /\ startFile = file
    /\ loaded = mappings
    /\ saveArg = None
    /\ saveFrom = file
    /\ edits = 0
    /\ displays = StdDisplays
    /\ SCREEN_W = displays[1].rect[3] - displays[1].rect[1]
    /\ SCREEN_H = displays[1].rect[4] - displays[1].rect[2]
    /\ windows \in PrimaryWindows
    /\ foreground = 0
    /\ RecorderInit
    /\ SessionsInit
    /\ EditorInit

NextPixel ==
    \/ on_hotkey(1)
    \/ \E s \in Threads :
          \/ clear_acquire(s)
          \/ clear_do(s)
          \/ record(s, TileSamples)
          \/ fetch_acquire(s)
          \/ fetch_copy(s)
          \/ fetch_clear(s)
          \/ classify(s)

SpecPixel == InitPixel /\ [][NextPixel]_vars

\* The integer nearest to n/d, for n >= 0 and d > 0 (halves go up)
Nearest(n, d) == (2 * n + d) \div (2 * d)

\* The rectangle of a region on a monitor with every product rounded to the
\* nearest pixel
NearestRect(region, mon) ==
    << mon[1] + Nearest((mon[3] - mon[1]) * region.d["x_frac"].n, region.d["x_frac"].d),
       mon[2] + Nearest((mon[4] - mon[2]) * region.d["y_frac"].n, region.d["y_frac"].d),
       Nearest((mon[3] - mon[1]) * region.d["w_frac"].n, region.d["w_frac"].d),
       Nearest((mon[4] - mon[2]) * region.d["h_frac"].n, region.d["h_frac"].d) >>

\* C21: every MoveWindow of a tiling step gets x, y, width and height equal
\* to the products of the paired region's fractions and the dimensions of the
\* window's monitor (plus the monitor origin for x and y), each rounded to the
\* nearest integer pixel: a product of 959.6 gives 960.
C21_PixelRounding ==
    [][\A s \in Threads : TilingStep(s) =>
          \A k \in 1..Len(calls'[s]) :
              LET c == calls'[s][k]
              IN  c.f = "MoveWindow" =>
                     \E i \in 1..Min2(Len(RegionsOf(s)), Len(cands'[s])) :
                        /\ cands'[s][i] = c.hwnd
                        /\ c.rect = NearestRect(RegionsOf(s)[i],
                                       get_monitor_rect_for_window(displays, windows, c.hwnd))]_vars

(***************************************************************************)
(* Restore before move                                                     *)
(***************************************************************************)
\* The position in the candidate list cs of window hwnd (0 when absent)
PairOf(cs, hwnd) ==
    IF \E i \in 1..Len(cs) : cs[i] = hwnd
    THEN CHOOSE i \in 1..Len(cs) : cs[i] = hwnd
    ELSE 0

\* C22: in the OS calls of a tiling step, every MoveWindow comes directly
\* after a successful ShowWindow (SW_RESTORE) of the same window; a window
\* whose ShowWindow fails gets no MoveWindow; and the calls for one pair all
\* come before the calls for the next pair.
C22_RestoreFirst ==
    [][\A s \in Threads : TilingStep(s) =>
          LET cs == calls'[s] IN
          /\ \A k \in 1..Len(cs) :
                cs[k].f = "MoveWindow" =>
                   /\ k > 1
                   /\ cs[k - 1] = ShowCall(cs[k].hwnd, TRUE)
          /\ \A k \in 1..Len(cs) :
                (cs[k].f = "ShowWindow" /\ ~cs[k].ok) => CallsOn(cs, "MoveWindow", cs[k].hwnd) = {}
          /\ \A k, l \in 1..Len(cs) :
                k < l =>
                   /\ PairOf(cands'[s], cs[k].hwnd) > 0
                   /\ PairOf(cands'[s], cs[k].hwnd) <= PairOf(cands'[s], cs[l].hwnd)
                   /\ (cs[k].hwnd = cs[l].hwnd => (cs[k].f = "ShowWindow" /\ cs[l].f = "MoveWindow"))]_vars

\* A session tiled two windows: restore and move of the first, then restore
\* and move of the second
C22_Witness ==
    \E s \in Threads :
        /\ Ended(s)
        /\ Len(calls[s]) = 4
        /\ calls[s][1].f = "ShowWindow" /\ calls[s][2].f = "MoveWindow"
        /\ calls[s][3].f = "ShowWindow" /\ calls[s][4].f = "MoveWindow"
        /\ calls[s][1].hwnd = calls[s][2].hwnd
        /\ calls[s][3].hwnd = calls[s][4].hwnd
        /\ calls[s][1].hwnd # calls[s][3].hwnd

\* A session whose first window could not be restored and was not moved,
\* while the second was restored and moved
C22_WitnessFailed ==
    \E s \in Threads :
        /\ Ended(s)
        /\ Len(calls[s]) = 3
        /\ calls[s][1].f = "ShowWindow" /\ ~calls[s][1].ok
        /\ calls[s][2].f = "ShowWindow" /\ calls[s][2].ok
        /\ calls[s][3].f = "MoveWindow"
        /\ calls[s][3].hwnd = calls[s][2].hwnd

(***************************************************************************)
(* tile_window and normalize_loaded on the same gesture value              *)
(***************************************************************************)
\* Values a document can hold for a gesture: the canonical, legacy and
\* malformed ones, and values of other types
CoercePool == ValPool \cup { None, F12, Bool(TRUE) }

\* tile_window is handed the value v as it stands in a document (cfg = v),
\* without load_mappings in between; the file holds that document
InitCoerce ==
    /\ proc = "listen"
    /\ \E v \in CoercePool :
          /\ mappings = Dict([k \in {"L_down_right"} |-> v])
          /\ file = FileOf(Dump(mappings))
    /\ savePc = "idle"
    /\ wbuf = <<>>
    /\ startFile = file
    /\ loaded = mappings
    /\ saveArg = None
    /\ saveFrom = file
    /\ edits = 0
    /\ displays = StdDisplays
    /\ SCREEN_W = displays[1].rect[3] - displays[1].rect[1]
    /\ SCREEN_H = displays[1].rect[4] - displays[1].rect[2]
    /\ windows \in PrimaryWindows
    /\ foreground = 0
    /\ RecorderInit
    /\ SessionsInit
    /\ EditorInit

NextCoerce ==
    \/ on_hotkey(1)
    \/ \E s \in Threads :
          \/ clear_acquire(s)
          \/ clear_do(s)
          \/ record(s, TileSamples)
          \/ fetch_acquire(s)
          \/ fetch_copy(s)
          \/ fetch_clear(s)
          \/ classify(s)

SpecCoerce == InitCoerce /\ [][NextCoerce]_vars

\* The messages of kind k in a log
Logged(lg, k) == SelectSeq(lg, LAMBDA m : m.k = k)

\* C23: for every value v a gesture maps to, the region list tile_window
\* derives from v is the list normalize_loaded produces for v, element for
\* element and in the same order (and one fails exactly when the other
\* does).  In the step that calls tile_window(v): with no list it raises
\* before any OS call, with an empty list it reports an invalid mapping, and
\* otherwise the window of pair i is moved to the rectangle of element i of
\* normalize_loaded's list, with the elements beyond the windows reported
\* as unused.
C23_SameCoercion ==
    [][\A s \in Threads : (ClassifyStep(s) /\ invoked'[s] # <<>>) =>
          LET v    == mappings.d[invoked'[s][1]]
              norm == NormalizeVal(v)
              cs   == calls'[s]
          IN  /\ TileRegions(v) = norm
              /\ IsRaise(norm) =>
                    (outcome'[s] = "raised" /\ cs = <<>> /\ Len(tlog'[s]) = 1)
              /\ (~IsRaise(norm) /\ norm.items = <<>>) =>
                    (cs = <<>> /\ Logged(tlog'[s], "invalid_mapping") # <<>>)
              /\ (~IsRaise(norm) /\ norm.items # <<>>) =>
                    /\ Logged(tlog'[s], "invalid_mapping") = <<>>
                    /\ \A k \in 1..Len(cs) :
                          cs[k].f = "MoveWindow" =>
                             /\ PairOf(cands'[s], cs[k].hwnd) \in 1..Len(norm.items)
                             /\ cs[k].rect = TileRect2(norm.items[PairOf(cands'[s], cs[k].hwnd)],
                                                       SCREEN_W, SCREEN_H)
                    /\ outcome'[s] = "returned" =>
                          Len(Logged(tlog'[s], "tiled")) + Len(Logged(tlog'[s], "failed"))
                            + (IF Logged(tlog'[s], "regions_unused") = <<>> THEN 0
                               ELSE Logged(tlog'[s], "regions_unused")[1].a)
                            = Len(norm.items)]_vars

\* tile_window was called with the bare list of four numbers and moved a window
C23_Witness ==
    \E s \in Threads :
        /\ Ended(s)
        /\ invoked[s] = <<"L_down_right">>
        /\ mappings.d["L_down_right"] = FlatFour
        /\ \E k \in 1..Len(calls[s]) : calls[s][k].f = "MoveWindow" /\ calls[s][k].ok

\* tile_window was called with a list holding a malformed element between two
\* regions and moved two windows
C23_WitnessMalformed ==
    \E s \in Threads :
        /\ Ended(s)
        /\ mappings.d["L_down_right"] = List(<<RLeft, Str("abc"), RRight>>)
        /\ Len(Logged(tlog[s], "tiled")) = 2

\* tile_window was called with a value of another type and found no region
C23_WitnessOther ==
    \E s \in Threads :
        /\ Ended(s)
        /\ mappings.d["L_down_right"] = Bool(TRUE)
        /\ Logged(tlog[s], "invalid_mapping") # <<>>

\* tile_window was called with a region object whose field is not a number
\* and raised
C23_WitnessRaise ==
    \E s \in Threads :
        /\ Ended(s)
        /\ mappings.d["L_down_right"] = BadField
        /\ outcome[s] = "raised"

(***************************************************************************)
(* Hotkey presses while a session is in progress.  Every session sleeps    *)
(* the same GESTURE_TIMEOUT, and the presses lie further apart than the    *)
(* few instructions a thread needs to start and to clear or fetch, so the  *)
(* sessions clear, wake and fetch in the order of their presses.  The      *)
(* sessions of one burst of presses are followed: thread 1 runs the first, *)
(* thread 2 the second, and so on.                                         *)
(***************************************************************************)
\* A press before any session of the burst has ended
press ==
    /\ \A t \in Threads : outcome[t] = "none"
    /\ on_hotkey(MaxSessions)

\* recorder.clear() of a session, after the sessions pressed before it have
\* cleared
clear_in_turn(s) ==
    /\ \A t \in Threads : t < s => pc[t] \notin {"clear", "clearing"}
    /\ clear_acquire(s)

\* time.sleep(GESTURE_TIMEOUT) of a session returns, after the sessions
\* pressed before it have woken and fetched
wake_in_turn(s) ==
    /\ \A t \in Threads : t < s => pc[t] \in {"classify", "idle"}
    /\ wake(s)

NextOverlap ==
    \/ press
    \/ on_move_acquire(PointNo(moves + 1), MaxMoves)
    \/ on_move_append
    \/ \E s \in Threads :
          \/ clear_in_turn(s)
          \/ clear_do(s)
          \/ wake_in_turn(s)
          \/ fetch_acquire(s)
          \/ fetch_copy(s)
          \/ fetch_clear(s)
          \/ classify(s)

SpecOverlap == InitRec /\ [][NextOverlap]_vars

\* Session s has emptied the buffer at its start
Cleared(s) == pc[s] \in {"sleep", "fetch", "copy", "drain", "classify"} \/ Ended(s)

\* The points numbered a+1 .. b, in order
PointsFrom(a, b) == [i \in 1..(b - a) |-> PointNo(a + i)]

C24_WitnessSecond ==
    /\ Fetched(1) /\ Fetched(2)
    /\ arr[1] # <<>> /\ arr[2] # <<>>
    /\ arr[2][1][1] > fetchAt[1]

(***************************************************************************)
(* The drain as a snapshot                                                 *)
(***************************************************************************)
\* C25: the sample of a session is the buffer content at its drain: fetch
\* copies the whole buffer and empties it with no append in between, and
\* from then until the session has ended the sample does not change.  A
\* point the listener appends while the session classifies or tiles goes to
\* the buffer, not to the sample, and the session's last step leaves the
\* buffer as it is.
C25_DrainSnapshot ==
    [][\A s \in Threads :
          /\ (pc[s] = "copy" /\ pc'[s] = "drain") => (arr'[s] = pts /\ pts' = pts)
          /\ (pc[s] = "drain" /\ pc'[s] = "drain") => (pts' = pts /\ arr'[s] = arr[s])
          /\ (pc[s] = "drain" /\ pc'[s] = "classify") =>
                (arr[s] = pts /\ arr'[s] = arr[s] /\ pts' = <<>>)
          /\ pc[s] = "classify" => arr'[s] = arr[s]
          /\ (pc[s] = "classify" /\ mpc = "append" /\ mpc' = "idle") =>
                (pts' = Append(pts, mpt) /\ ~InSeq(mpt, arr'[s]))
          /\ (pc[s] = "classify" /\ pc'[s] = "idle") => pts' = pts]_vars

\* A session holds a sample of two points and has not classified it yet; a
\* point appended after its drain is in the buffer
C25_Witness ==
    \E s \in Threads :
        /\ pc[s] = "classify"
        /\ Len(arr[s]) = 2
        /\ moves > fetchAt[s]
        /\ pts = <<PointNo(moves)>>

\* A session has ended; the point appended after its drain is still in the
\* buffer and not in its sample
C25_WitnessEnded ==
    \E s \in Threads :
        /\ Ended(s)
        /\ arr[s] # <<>>
        /\ pts # <<>>
        /\ \A i \in 1..Len(pts) : pts[i][1] > fetchAt[s] /\ ~InSeq(pts[i], arr[s])

(***************************************************************************)
(* The desktop changes between tiling invocations: windows open, close,    *)
(* hide, lose their title or stop answering queries                        *)
(***************************************************************************)
MaxEnumWins == 2

\* Kinds of window: an application window, a hidden one, one without a title,
\* one whose title is white space, a tool window, one whose queries raise
EnumKinds ==
    { <<TRUE, "App", FALSE, TRUE, 1>>,
      <<FALSE, "App", FALSE, TRUE, 1>>,
      <<TRUE, "", FALSE, TRUE, 1>>,
      <<TRUE, " ", FALSE, TRUE, 1>>,
      <<TRUE, "Palette", TRUE, TRUE, 1>>,
      <<TRUE, "App", FALSE, FALSE, 1>> }

EnumWindowLists == { MkWindows(ks) : ks \in SeqsUpTo(EnumKinds, MaxEnumWins) }

\* The top-level windows of the desktop become ws
windows_change(ws) ==
    /\ ws # windows
    /\ windows' = ws
    /\ UNCHANGED <<displays, SCREEN_W, SCREEN_H, foreground>>
    /\ UNCHANGED <<storeVars, recVars, sessVars, edVars>>

InitEnum ==
    /\ proc = "listen"
    /\ file = FileOf(Dump(Dict([k \in {"L_down_right"} |-> List(<<RLeft, RRight>>)])))
    /\ mappings = load_mappings(file)
    /\ savePc = "idle"
    /\ wbuf = <<>>
    /\ startFile = file
    /\ loaded = mappings
    /\ saveArg = None
    /\ saveFrom = file
    /\ edits = 0
    /\ displays = StdDisplays
    /\ SCREEN_W = displays[1].rect[3] - displays[1].rect[1]
    /\ SCREEN_H = displays[1].rect[4] - displays[1].rect[2]
    /\ windows \in EnumWindowLists
    /\ foreground \in {0, 102}
    /\ RecorderInit
    /\ SessionsInit
    /\ EditorInit

NextEnum ==
    \/ \E ws \in EnumWindowLists : windows_change(ws)
    \/ on_hotkey(1)
    \/ \E s \in Threads :
          \/ clear_acquire(s)
          \/ clear_do(s)
          \/ record(s, {StrokeLDownRight})
          \/ fetch_acquire(s)
          \/ fetch_copy(s)
          \/ fetch_clear(s)
          \/ classify(s)

SpecEnum == InitEnum /\ [][NextEnum]_vars

\* The claimed eligibility of a window
Eligible(w) ==
    /\ w.valid
    /\ w.visible
    /\ \E i \in 1..Len(w.title) : SubSeq(w.title, i, i) # " "
    /\ ~w.tool

\* C26: in a step that calls tile_window with a mapping that has a region,
\* the candidates are the windows of the desktop as it is at that step that
\* are visible, have a title that is not empty after stripping white space,
\* and are not tool windows, whatever the desktop was at earlier invocations;
\* a window whose properties cannot be queried is left out and the windows
\* after it are still enumerated; ShowWindow and MoveWindow are called on
\* candidates only.
C26_CandidateEligibility ==
    [][\A s \in Threads :
          (/\ ClassifyStep(s)
           /\ invoked'[s] # <<>>
           /\ ~IsRaise(TileRegions(mappings.d[invoked'[s][1]]))
           /\ TileRegions(mappings.d[invoked'[s][1]]).items # <<>>) =>
              LET elig == {i \in 1..Len(windows) : Eligible(windows[i])}
              IN  /\ {cands'[s][k] : k \in 1..Len(cands'[s])} = {windows[i].hwnd : i \in elig}
                  /\ Len(cands'[s]) = Cardinality(elig)
                  /\ \A k \in 1..Len(calls'[s]) :
                        \E i \in elig : calls'[s][k].hwnd = windows[i].hwnd]_vars

\* A session moved the second window of the desktop; the first does not
\* answer queries
C26_Witness ==
    \E s \in Threads :
        /\ Ended(s)
        /\ Len(windows) = 2 /\ ~windows[1].valid
        /\ cands[s] = <<102>>
        /\ \E k \in 1..Len(calls[s]) : calls[s][k].f = "MoveWindow" /\ calls[s][k].hwnd = 102

\* A session found no candidate on a desktop whose only visible window has a
\* title of white space
C26_WitnessBlank ==
    \E s \in Threads :
        /\ Ended(s)
        /\ Len(windows) = 1 /\ windows[1].title = " " /\ windows[1].visible
        /\ InSeq(Msg("no_candidates", 0, 0), tlog[s])

\* A session tiled two windows of which the desktop now has one: the
\* candidates of a session are not those of the desktop afterwards
C26_WitnessChanged ==
    \E s \in Threads :
        /\ Ended(s)
        /\ Len(cands[s]) = 2
        /\ Len(windows) = 1

(***************************************************************************)
(* The L predicates exclude each other                                     *)
(***************************************************************************)
\* The positions of the L gestures in the declared order
LPositions == {i \in 1..Len(DeclaredOrder) : DeclaredOrder[i] \in DOMAIN LSigns}

\* C27: of the sample of a session, at most one of the four L predicates
\* holds; when two predicates hold they are one L predicate and the V
\* predicate; so an L gesture that is detected is the only L gesture whose
\* predicate holds, whatever the order of evaluation among the L gestures.
C27_LExclusive ==
    \A s \in Threads : Fetched(s) =>
        LET M == Matches(arr[s]) IN
        /\ Cardinality(M \cap LPositions) <= 1
        /\ Cardinality(M) <= 2
        /\ Cardinality(M) = 2 => \E i \in M : DeclaredOrder[i] = "V_shape"
        /\ \A g \in DOMAIN LSigns :
              (Ended(s) /\ Detections(tlog[s]) = <<GMsg("detected", g)>>) =>
                 M \cap LPositions = {i \in LPositions : DeclaredOrder[i] = g}

\* A session ended on a sample of which exactly two predicates hold, an L
\* predicate and the V predicate, and detected the L gesture
C27_Witness ==
    \E s \in Threads :
        /\ Ended(s)
        /\ Cardinality(Matches(arr[s])) = 2
        /\ Cardinality(Matches(arr[s]) \cap LPositions) = 1
        /\ \E g \in DOMAIN LSigns : Detections(tlog[s]) = <<GMsg("detected", g)>>

\* A session ended on a sample that goes down and then left, and detected
\* L_down_left alone
C27_WitnessOne ==
    \E s \in Threads :
        /\ Ended(s)
        /\ arr[s] = <<PtA, PtA, PtB, PtC, PtC, PtA>>
        /\ Matches(arr[s]) = {3}
        /\ Detections(tlog[s]) = <<GMsg("detected", "L_down_left")>>

(***************************************************************************)
(* RegionSelector.onSave taken statement by statement, while hotkey        *)
(* sessions run in their own threads                                       *)
(***************************************************************************)
\* onSave is entered: regs = []
onSave_begin ==
    /\ proc = "config"
    /\ savePc = "idle"
    /\ selector # ""
    /\ edits < MaxEdits
    /\ savePc' = "build"
    /\ regs' = <<>>
    /\ UNCHANGED <<proc, file, mappings, wbuf, startFile, loaded, saveArg, saveFrom, edits>>
    /\ UNCHANGED <<osVars, recVars, sessVars, selector, handles, drags, schedVars>>

\* A loop that writes every region into the gesture's entry as soon as it is
\* computed, to compare with
onSave_append_InPlace ==
    /\ savePc = "build"
    /\ Len(regs) < Len(handles)
    /\ regs' = Append(regs, RegionOfHandle(displays, handles[Len(regs) + 1]))
    /\ mappings' = DictSet(mappings, selector, List(regs'))
    /\ UNCHANGED <<proc, file, savePc, wbuf, startFile, loaded, saveArg, saveFrom, edits>>
    /\ UNCHANGED <<osVars, recVars, sessVars, selector, handles, drags, schedVars>>

\* One turn of `for h in self.handles:` ending in regs.append({...})
onSave_append ==
    /\ savePc = "build"
    /\ Len(regs) < Len(handles)
    /\ regs' = Append(regs, RegionOfHandle(displays, handles[Len(regs) + 1]))
    /\ UNCHANGED <<storeVars, osVars, recVars, sessVars, selector, handles, drags, schedVars>>

\* After the loop: self.mappings[self.gesture] = regs, and save_mappings
\* opens the file
onSave_assign ==
    /\ savePc = "build"
    /\ Len(regs) = Len(handles)
    /\ edits' = edits + 1
    /\ mappings' = DictSet(mappings, selector, List(regs))
    /\ save_open(mappings', "selector")
    /\ regs' = <<>>
    /\ UNCHANGED <<proc, startFile, loaded, osVars, recVars, sessVars>>
    /\ UNCHANGED <<selector, handles, drags, schedVars>>

RaceFiles ==
    { FileOf(Dump(Dict([k \in {"L_down_right"} |-> List(<<RLeft, RRight>>)]))),
      FileOf(Dump(Dict([k \in {"L_down_right"} |-> List(<<RInner>>)]))) }

InitRace ==
    /\ proc = "config"
    /\ file \in RaceFiles
    /\ mappings = load_mappings(file)
    /\ savePc = "idle"
    /\ wbuf = <<>>
    /\ startFile = file
    /\ loaded = mappings
    /\ saveArg = None
    /\ saveFrom = file
    /\ edits = 0
    /\ displays = StdDisplays
    /\ SCREEN_W = displays[1].rect[3] - displays[1].rect[1]
    /\ SCREEN_H = displays[1].rect[4] - displays[1].rect[2]
    /\ windows \in PrimaryWindows
    /\ foreground = 0
    /\ RecorderInit
    /\ SessionsInit
    /\ EditorInit

NextRace ==
    \/ \E g \in EditGestures : openSelector(g)
    \/ add_region_default
    \/ remove_last
    \/ close
    \/ onSave_begin
    \/ onSave_append
    \/ onSave_assign
    \/ SaveFlush
    \/ SaveClose
    \/ on_hotkey(1)
    \/ \E s \in Threads :
          \/ clear_acquire(s)
          \/ clear_do(s)
          \/ record(s, EditSamples)
          \/ fetch_acquire(s)
          \/ fetch_copy(s)
          \/ fetch_clear(s)
          \/ classify(s)

SpecRace == InitRace /\ [][NextRace]_vars

\* The mapping as the latest load or the latest completed assignment of a
\* Save left it
Committed == IF saveArg = None THEN loaded ELSE saveArg

\* C28: while the editor's Save runs beside a hotkey session, the mapping
\* object the session reads is at every moment the one from before the Save
\* or the one after it: building the new list changes no entry, and one
\* assignment puts the complete list (one region per handle) in the
\* gesture's entry.  A tiling invocation at any point of the Save moves
\* windows by the regions of one of these whole lists, never by a partly
\* built one.
C28_SaveRace ==
    [][/\ mappings = Committed
       /\ (savePc = "build" /\ savePc' = "build") => mappings' = mappings
       /\ (savePc = "build" /\ savePc' = "selector") =>
             /\ mappings' = onSaveMapping(mappings, displays, selector, handles)
             /\ saveArg' = mappings'
       /\ \A s \in Threads : (ClassifyStep(s) /\ invoked'[s] # <<>>) =>
             LET whole == Committed.d[invoked'[s][1]].items
                 cs    == calls'[s]
             IN  /\ \A k \in 1..Len(cs) :
                       cs[k].f = "MoveWindow" =>
                          /\ PairOf(cands'[s], cs[k].hwnd) \in 1..Len(whole)
                          /\ cs[k].rect = TileRect2(whole[PairOf(cands'[s], cs[k].hwnd)],
                                                    SCREEN_W, SCREEN_H)
                 /\ (outcome'[s] = "returned" /\ whole # <<>>) =>
                       Len(Logged(tlog'[s], "tiled")) + Len(Logged(tlog'[s], "failed"))
                         + (IF Logged(tlog'[s], "regions_unused") = <<>> THEN 0
                            ELSE Logged(tlog'[s], "regions_unused")[1].a)
                         = Len(whole)]_vars

\* Save has built the first of two regions for L_down_right while a
\* session that recorded L_down_right is about to classify its sample
C28_Witness ==
    /\ savePc = "build"
    /\ selector = "L_down_right"
    /\ Len(regs) = 1 /\ Len(handles) = 2
    /\ \E s \in Threads : pc[s] = "classify" /\ arr[s] = StrokeLDownRight

\* A session tiled for L_down_right while Save was building: the Save is
\* still not through and the session has ended
C28_WitnessDuring ==
    /\ savePc = "build"
    /\ regs # <<>>
    /\ \E s \in Threads :
          /\ Ended(s) /\ invoked[s] = <<"L_down_right">>
          /\ \E k \in 1..Len(calls[s]) : calls[s][k].f = "MoveWindow"

\* With two windows on the desktop a session tiled one, by the one-region
\* list Save had assigned in place of the two loaded regions, while the
\* file was still being written
C28_WitnessAfter ==
    /\ savePc = "selector"
    /\ Len(mappings.d["L_down_right"].items) = 1
    /\ Len(loaded.d["L_down_right"].items) = 2
    /\ \E s \in Threads :
          /\ Ended(s) /\ invoked[s] = <<"L_down_right">>
          /\ Len(cands[s]) = 2
          /\ Len(Logged(tlog[s], "tiled")) = 1

(***************************************************************************)
(* The region editor on a mapping with entries for several gestures        *)
(***************************************************************************)
FrameGestures == { "L_down_right", "V_shape" }

FrameFiles ==
    { FileOf(Dump(Dict([k \in {"L_down_right", "V_shape"} |->
                           IF k = "V_shape" THEN List(<<RInner>>)
                           ELSE List(<<RLeft, RRight>>)]))),
      FileOf(Dump(Dict([k \in {"L_down_right", "L_up_left"} |->
                           IF k = "L_up_left" THEN List(<<RRight>>)
                           ELSE List(<<>>)]))) }

InitFrame ==
    /\ proc = "config"
    /\ file \in FrameFiles
    /\ mappings = load_mappings(file)
    /\ savePc = "idle"
    /\ wbuf = <<>>
    /\ startFile = file
    /\ loaded = mappings
    /\ saveArg = None
    /\ saveFrom = file
    /\ edits = 0
    /\ displays = StdDisplays
    /\ SCREEN_W = displays[1].rect[3] - displays[1].rect[1]
    /\ SCREEN_H = displays[1].rect[4] - displays[1].rect[2]
    /\ windows = <<>>
    /\ foreground = 0
    /\ RecorderInit
    /\ SessionsInit
    /\ EditorInit

NextFrame ==
    \/ \E g \in FrameGestures : openSelector(g)
    \/ add_region_default
    \/ remove_last
    \/ close
    \/ \E i \in 1..MaxFrames, where \in PressPlaces, d \in MouseDeltas : mouse(i, where, d)
    \/ selector_onSave
    \/ SaveFlush
    \/ SaveClose

SpecFrame == InitFrame /\ [][NextFrame]_vars

\* The step is one inside the open editor that leaves it open and is not Save
EditorStep ==
    /\ savePc = "idle" /\ savePc' = "idle"
    /\ selector # "" /\ selector' = selector

\* The frames the editor shows when it is opened for the gesture it edits
Shown ==
    LET saved == DictGet(mappings, selector, List(<<>>)).items
    IN  [i \in 1..Len(saved) |->
           create_handle_from_region(displays, SCREEN_W, SCREEN_H, saved[i])]

\* C29: the editor's Save for gesture g puts in the entry of g one region
\* per frame shown, in the order the frames were created, and leaves the
\* entry of every other gesture as it was; Add Region puts its frame after
\* the others and Remove Last takes away the frame created last, so the
\* frames that remain keep their order; Cancel closes the editor and
\* changes no entry.  (Opening the editor again shows the saved regions'
\* frames anew.)
C29_SaveFrame ==
    [][/\ SelectorSaveStep =>
             /\ DOMAIN mappings'.d = DOMAIN mappings.d \cup {selector}
             /\ \A k \in DOMAIN mappings.d : k # selector => mappings'.d[k] = mappings.d[k]
             /\ Len(mappings'.d[selector].items) = Len(handles)
             /\ \A i \in 1..Len(handles) :
                   mappings'.d[selector].items[i] = RegionOfHandle(displays, handles[i])
       /\ (EditorStep /\ Len(handles') > Len(handles) /\ handles' # Shown) =>
             (Len(handles') = Len(handles) + 1 /\ SubSeq(handles', 1, Len(handles)) = handles)
       /\ (EditorStep /\ Len(handles') < Len(handles) /\ handles' # Shown) =>
             handles' = SubSeq(handles, 1, Len(handles) - 1)
       /\ (savePc = "idle" /\ savePc' = "idle" /\ selector # "" /\ selector' = "") =>
             mappings' = mappings]_vars

\* Save for L_down_right after Remove Last: its entry has the first of the
\* two loaded regions' frames, the entry of V_shape is as loaded
C29_Witness ==
    /\ edits = 1
    /\ DOMAIN mappings.d = {"L_down_right", "V_shape"}
    /\ Len(loaded.d["L_down_right"].items) = 2
    /\ Len(mappings.d["L_down_right"].items) = 1
    /\ mappings.d["L_down_right"].items[1]
          = RegionOfHandle(displays, create_handle_from_region(displays, SCREEN_W, SCREEN_H, RLeft))
    /\ mappings.d["V_shape"] = loaded.d["V_shape"]

\* Save for a gesture that had no entry: the entry is new, the others are as
\* loaded
C29_WitnessNew ==
    /\ edits = 1
    /\ "V_shape" \notin DOMAIN loaded.d
    /\ "V_shape" \in DOMAIN mappings.d
    /\ Len(mappings.d["V_shape"].items) = 1
    /\ \A k \in DOMAIN loaded.d : mappings.d[k] = loaded.d[k]

\* The editor was closed with Cancel after a frame was dragged: no frame is shown
\* and the mapping is as loaded
C29_WitnessCancel ==
    /\ edits = 0
    /\ selector = ""
    /\ drags > 0
    /\ mappings = loaded

(***************************************************************************)
(* browser_automator.py: the Scheduler of the browser automator            *)
(***************************************************************************)
MaxJobs == 2
MaxRepeat == 1
MaxNow == 70

\* What parse_datetime can return (seconds), and by how much the clock
\* moves between two events
RunAts == { 0, 60 }
ClockSteps == { 10, 60 }

\* ScheduledJob, with the fields Scheduler reads; every_seconds is None or a
\* number
ScheduledJob(job_id, next_run, every_seconds) ==
    [job_id |-> job_id, next_run |-> next_run, every_seconds |-> every_seconds]

\* Python's truth value of an Optional[int]
IntTruthy(v) == v.t = "num" /\ v.n # 0

\* Scheduler.remove: self.jobs.pop(job_id, None)
remove(js, job_id) == [k \in DOMAIN js \ {job_id} |-> js[k]]

\* Scheduler.add: self.jobs[job.job_id] = job
add(js, job) == [k \in DOMAIN js \cup {job.job_id} |-> IF k = job.job_id THEN job ELSE js[k]]

\* A repeating job that is set to its next period, to compare with
reschedule_Periodic(js, j, t) ==
    IF IntTruthy(j.every_seconds)
    THEN [js EXCEPT ![j.job_id].next_run = j.next_run + j.every_seconds.n]
    ELSE remove(js, j.job_id)

\* Scheduler.tick, the body of its loop after on_fire(j): the job is set to
\* now + every_seconds or removed
reschedule(js, j, t) ==
    IF IntTruthy(j.every_seconds)
    THEN [js EXCEPT ![j.job_id].next_run = t + j.every_seconds.n]
    ELSE remove(js, j.job_id)

\* Scheduler.tick: due = [j for j in self.jobs.values() if j.next_run <= now].
\* A dict keeps insertion order and job ids are handed out increasing, so
\* the values come in the order of their ids
due(js, t, upto) ==
    LET RECURSIVE from(_)
        from(k) == IF k > upto THEN <<>>
                   ELSE IF k \in DOMAIN js /\ js[k].next_run <= t
                        THEN <<js[k]>> \o from(k + 1)
                        ELSE from(k + 1)
    IN  from(1)

\* Scheduler.tick: `for j in due:`; the result is the job table and the
\* calls of on_fire
RECURSIVE tick_loop(_, _, _, _)
tick_loop(js, log, d, t) ==
    IF d = <<>> THEN [jobs |-> js, fired |-> log]
    ELSE tick_loop(reschedule(js, Head(d), t),
                   Append(log, [job |-> Head(d), at |-> t]),
                   Tail(d), t)

\* Scheduler.tick, run by the QTimer in the GUI thread
tick ==
    /\ \E r \in { tick_loop(jobs, fired, due(jobs, now, counter), now) } :
          /\ jobs' = r.jobs
          /\ fired' = r.fired
    /\ UNCHANGED <<counter, now>>
    /\ UNCHANGED <<storeVars, osVars, recVars, sessVars, selector, handles, drags, regs>>

\* SchedulerTab.add_schedule with a valid target: run_at is what
\* parse_datetime gave (parsed) or now + 10 s, every_seconds comes from the
\* minutes of the spin box; next_id and add
add_schedule(parsed, every_minutes) ==
    /\ counter < MaxJobs
    /\ LET run_at        == IF parsed = None THEN now + 10 ELSE parsed.n
           every_seconds == IF every_minutes > 0 THEN Num(every_minutes * 60, 1) ELSE None
       IN  /\ counter' = counter + 1
           /\ jobs' = add(jobs, ScheduledJob(counter', run_at, every_seconds))
    /\ UNCHANGED <<now, fired>>
    /\ UNCHANGED <<storeVars, osVars, recVars, sessVars, selector, handles, drags, regs>>

\* Time passes
clock(dt) ==
    /\ now + dt <= MaxNow
    /\ now' = now + dt
    /\ UNCHANGED <<jobs, counter, fired>>
    /\ UNCHANGED <<storeVars, osVars, recVars, sessVars, selector, handles, drags, regs>>

InitSched ==
    /\ proc = "down"
    /\ file = NoFile
    /\ mappings = EmptyDict
    /\ savePc = "idle"
    /\ wbuf = <<>>
    /\ startFile = file
    /\ loaded = None
    /\ saveArg = None
    /\ saveFrom = file
    /\ edits = 0
    /\ displays = StdDisplays
    /\ SCREEN_W = displays[1].rect[3] - displays[1].rect[1]
    /\ SCREEN_H = displays[1].rect[4] - displays[1].rect[2]
    /\ windows = <<>>
    /\ foreground = 0
    /\ RecorderInit
    /\ SessionsInit
    /\ EditorInit

NextSched ==
    \/ \E parsed \in { Num(t, 1) : t \in RunAts } \cup { None }, every_minutes \in 0..MaxRepeat :
          add_schedule(parsed, every_minutes)
    \/ tick
    \/ \E dt \in ClockSteps : clock(dt)

SpecSched == InitSched /\ [][NextSched]_vars

\* The step is a tick that fired something
TickStep == counter' = counter /\ now' = now /\ fired' # fired

\* The calls of on_fire for job id among the calls log[a + 1 .. ]
FiredSince(log, a, id) == { i \in (a + 1)..Len(log) : log[i].job.job_id = id }

\* C30: a tick of the scheduler at time t calls on_fire exactly once for
\* every job of the table with next_run <= t and for no other job; a fired
\* job without a repeat period is no longer in the table and a fired job
\* with one is in the table with next_run = t + every_seconds; the jobs that
\* were not due are unchanged; and over the whole run a job without a repeat
\* period is fired at most once.
C30_SchedulerTick ==
    [][/\ TickStep =>
             /\ DOMAIN jobs' \subseteq DOMAIN jobs
             /\ SubSeq(fired', 1, Len(fired)) = fired
             /\ \A i \in (Len(fired) + 1)..Len(fired') :
                   /\ fired'[i].at = now
                   /\ fired'[i].job.job_id \in DOMAIN jobs
                   /\ fired'[i].job = jobs[fired'[i].job.job_id]
             /\ \A id \in DOMAIN jobs :
                   IF jobs[id].next_run <= now
                   THEN /\ Cardinality(FiredSince(fired', Len(fired), id)) = 1
                        /\ IF jobs[id].every_seconds = None
                           THEN id \notin DOMAIN jobs'
                           ELSE /\ id \in DOMAIN jobs'
                                /\ jobs'[id] = [jobs[id] EXCEPT
                                      !.next_run = now + jobs[id].every_seconds.n]
                   ELSE /\ FiredSince(fired', Len(fired), id) = {}
                        /\ id \in DOMAIN jobs'
                        /\ jobs'[id] = jobs[id]
       /\ \A i, k \in 1..Len(fired') :
             (fired'[i].job.job_id = fired'[k].job.job_id
                 /\ fired'[i].job.every_seconds = None) => i = k]_vars

\* One late tick fired a one-off job and a repeating job: the first is gone
\* and the second waits for the time of the tick plus its period, which is
\* later than its next period would have been
C30_Witness ==
    /\ Len(fired) = 2
    /\ fired[1].at = fired[2].at
    /\ fired[1].job.every_seconds = None
    /\ fired[1].job.job_id \notin DOMAIN jobs
    /\ fired[2].job.every_seconds # None
    /\ fired[2].job.job_id \in DOMAIN jobs
    /\ fired[2].job.next_run < fired[2].at
    /\ jobs[fired[2].job.job_id].next_run = fired[2].at + fired[2].job.every_seconds.n

\* A tick left a job that was not due as it was added
C30_WitnessNotDue ==
    /\ Len(fired) = 1
    /\ \E id \in DOMAIN jobs :
          /\ id < fired[1].job.job_id
          /\ jobs[id].next_run > now
          /\ jobs[id].every_seconds = None

\* A repeating job was fired by two ticks
C30_WitnessRepeat ==
    /\ Len(fired) = 2
    /\ fired[1].job.job_id = fired[2].job.job_id
    /\ fired[2].at >= fired[1].at + 60

====
